---- MODULE Spec2Model ----
(***************************************************************************)
(* Model of the httpclient middleware pipeline: the request builder's      *)
(* middleware list, the pipeline driver Next::run, the transport           *)
(* terminator and the reference middlewares (default passthrough, Retry,   *)
(* Follow).                                                                *)
(*                                                                         *)
(* Two pipelines run the same request against the same server answers:     *)
(* pipeline 1 runs the builder's middleware list and, when that list holds *)
(* a default-passthrough middleware, pipeline 2 runs the list with every   *)
(* such middleware removed.  The k-th dispatch of either pipeline is       *)
(* answered with the same server outcome, so the two runs can be compared. *)
(*                                                                         *)
(* Durations are counted in units of 100 ms.                               *)
(***************************************************************************)
EXTENDS Integers, Sequences, FiniteSets, TLC

VARIABLES
    phase,        \* "build" (RequestBuilder being assembled), "run", "done"
    middlewares,  \* RequestBuilder.middlewares
    installed,    \* history: the middlewares in the order they were added
    request,      \* the request assembled by the builder
    stack,        \* per pipeline: the active handle() frames, outermost first
    call,         \* per pipeline: a pending Next::run(request) call
    retval,       \* per pipeline: a value travelling back to the top frame
    result,       \* per pipeline: what send() returned
    lastReq,      \* per pipeline: the wire request of the last dispatch
    behind,       \* the pipeline that has one dispatch less than the other, or 0
    lastResp,     \* the server outcome the pipeline behind will get
    turn,         \* the pipeline that runs now
    requests,     \* RequestRecorder.requests: the IndexMap, in insertion order
    files,        \* the recording directory: file path -> file contents
    lock,         \* the RwLock around RequestRecorder.requests
    access_token, \* OAuth2.access_token
    token_lock,   \* the RwLock around OAuth2.access_token
    token_type,   \* OAuth2.token_type: "Bearer" or "Other" (a custom header name)
    refresh_token, \* OAuth2.refresh_token
    task          \* per in-flight request: the position of its handle()

pipelineVars == <<phase, middlewares, installed, request, stack, call, retval,
                  result, lastReq, behind, lastResp, turn>>

recVars == <<requests, files, lock, access_token, token_lock, token_type,
             refresh_token, task>>

vars == <<pipelineVars, recVars>>

----------------------------------------------------------------------------
(* Bounds *)

MaxMw == 2            \* longest middleware list the builder assembles
MaxRetriesArg == 1    \* largest argument given to Retry::max_retries
NumTasks == 2         \* requests in flight through a Recorder or OAuth2

(* Program constants *)

DefaultMaxRetries == 3
DefaultBackoffDelay == 20
InitialDelay == 1
AllowedRedirects == 10

DefaultRetryCodes == {408, 429, 425, 503}

(* Arguments given to Retry::backoff_delay and Retry::retry_codes *)
CustomBackoffDelay == 50

CustomRetryCodes == {500, 503}

----------------------------------------------------------------------------
(* Data *)

Pipelines == {1, 2}

Other(p) == 3 - p

NoCfg == [max_retries |-> 0, backoff_delay |-> 0, retry_codes |-> {}]

Mw(k, c) == [kind |-> k, cfg |-> c]

(* A middleware with the default handle, and Follow *)
PassMw == Mw("Pass", NoCfg)

FollowMw == Mw("Follow", NoCfg)

(* Retry::default and the setters of Retry *)
RetryDefault ==
    Mw("Retry", [max_retries |-> DefaultMaxRetries,
                 backoff_delay |-> DefaultBackoffDelay,
                 retry_codes |-> DefaultRetryCodes])

Retry_max_retries(r, n) == [r EXCEPT !.cfg.max_retries = n]

Retry_backoff_delay(r, d) == [r EXCEPT !.cfg.backoff_delay = d]

Retry_retry_codes(r, c) == [r EXCEPT !.cfg.retry_codes = c]

(* A Retry with every field set by its setter *)
RetryCustom ==
    Retry_retry_codes(
        Retry_backoff_delay(Retry_max_retries(RetryDefault, 2), CustomBackoffDelay),
        CustomRetryCodes)

(* The middleware instances given to RequestBuilder::middleware *)
RetryInstances ==
    {RetryDefault, RetryCustom}
    \cup {Retry_max_retries(RetryDefault, n) : n \in 0..MaxRetriesArg}

MiddlewareInstances == {PassMw, FollowMw} \cup RetryInstances

NoUri == [scheme |-> "", authority |-> "", path |-> ""]

Uri(s, a, p) == [scheme |-> s, authority |-> a, path |-> p]

EmptyBody == [variant |-> "Empty", content |-> ""]

TextBody(s) == [variant |-> "Text", content |-> s]

NoRequest ==
    [method |-> "", uri |-> NoUri, version |-> "", headers |-> {}, body |-> EmptyBody]

Header(n, v) == [name |-> n, value |-> v]

Requests ==
    { [method |-> "GET", uri |-> Uri("http", "a.test", "/1"), version |-> "HTTP/1.1",
       headers |-> {Header("user-agent", "httpclient")}, body |-> EmptyBody],
      [method |-> "POST", uri |-> Uri("http", "a.test", "/1"), version |-> "HTTP/1.1",
       headers |-> {Header("user-agent", "httpclient"), Header("content-type", "text/plain")},
       body |-> TextBody("hi")] }

(* A header that is absent, and the values the Retry-After header takes:   *)
(* decimal seconds, an RFC 2822 instant `val` units away from now          *)
(* (negative: in the past), or text that is neither.                       *)
NoHint == [kind |-> "none", val |-> 0]

HintSecs(n) == [kind |-> "secs", val |-> n]

HintDate(d) == [kind |-> "date", val |-> d]

HintBad == [kind |-> "bad", val |-> 0]

NoLocation == [present |-> FALSE, uri |-> NoUri]

Location(u) == [present |-> TRUE, uri |-> u]

Response(st, loc, ra) == [status |-> st, location |-> loc, retry_after |-> ra]

NoResponse == Response(0, NoLocation, NoHint)

(* ProtocolResult<Response> *)
NoVal == [kind |-> "none", res |-> NoResponse, err |-> ""]

Ok(r) == [kind |-> "ok", res |-> r, err |-> ""]

Err(e) == [kind |-> "err", res |-> NoResponse, err |-> e]

Panic == [kind |-> "panic", res |-> NoResponse, err |-> ""]

(* What the server (or the connection) answers to one dispatch. *)
ServerOutcomes ==
    { Err("ConnectionError"),
      Ok(Response(200, NoLocation, NoHint)),
      Ok(Response(500, NoLocation, NoHint)),
      Ok(Response(503, NoLocation, NoHint)),
      Ok(Response(429, NoLocation, HintSecs(1))),
      Ok(Response(429, NoLocation, HintDate(-5))),
      Ok(Response(302, NoLocation, NoHint)),
      Ok(Response(302, Location(Uri("https", "b.test", "/2")), NoHint)),
      Ok(Response(302, Location(Uri("", "", "/3")), NoHint)) }

(* The result slot of a pipeline that does not run. *)
Absent == [kind |-> "absent", res |-> NoResponse, err |-> ""]

(* A pending Next::run(req) whose cursor holds the list positions mws. *)
NoCall == [active |-> FALSE, req |-> NoRequest, mws |-> <<>>]

Call(r, m) == [active |-> TRUE, req |-> r, mws |-> m]

(* One activation of a middleware's handle(request, next): the middleware  *)
(* (kind, cfg, list position idx), its arguments (req, rest =              *)
(* next.middlewares), its position pc and locals (i, delay, allowed), and  *)
(* history taken while it runs: calls to next.run, sleeps, responses seen  *)
(* with a status in retry_codes, 3xx responses seen, whether the last      *)
(* retryable response gave a usable delay, the URI of the request last     *)
(* passed to next.run and, once it returns (pc = "done"), the last value   *)
(* next.run gave it.                                                       *)
NoFrame ==
    [kind |-> "", cfg |-> NoCfg, idx |-> 0, req |-> NoRequest, rest |-> <<>>,
     pc |-> "", i |-> 0, delay |-> 0, allowed |-> 0,
     calls |-> 0, sleeps |-> 0, nretry |-> 0, nredir |-> 0, hinted |-> FALSE,
     sent_uri |-> NoUri, got |-> NoVal]

----------------------------------------------------------------------------
(* Pure functions *)

Positions(list) == [k \in 1..Len(list) |-> k]

IsPass(m) == m.kind = "Pass"

RemovePass(list) == SelectSeq(list, LAMBDA m : ~IsPass(m))

HasPass(list) == \E k \in 1..Len(list) : IsPass(list[k])

MwList(p) == IF p = 1 THEN middlewares ELSE RemovePass(middlewares)

(* RequestBuilder::middleware: self.middlewares.push(middleware) *)
PushMiddleware(list, m) == Append(list, m)

(* Variant: the cursor is consumed from its far end. *)
SplitLast(mws) == [middleware |-> mws[Len(mws)], rest |-> SubSeq(mws, 1, Len(mws) - 1)]

(* split_first on the cursor of Next::run: the middleware to invoke and    *)
(* the cursor handed to it.                                                *)
SplitFirst(mws) == [middleware |-> Head(mws), rest |-> Tail(mws)]

HasHeader(req, n) == \E h \in req.headers : h.name = n

BodyLen(body) == Len(body.content)

(* The terminator's wire request: Content-Length is inserted from the      *)
(* materialized body only when the request has none.                       *)
WireRequest(req) ==
    IF HasHeader(req, "content-length")
    THEN req
    ELSE [req EXCEPT !.headers = @ \cup {Header("content-length", ToString(BodyLen(req.body)))}]

(* Variant: the request is passed on without its headers. *)
PassRequestStripped(req) == [req EXCEPT !.headers = {}]

(* The request the default Middleware::handle passes to next.run *)
PassRequest(req) == req

NoDelay == [some |-> FALSE, val |-> 0]

SomeDelay(d) == [some |-> TRUE, val |-> d]

calc_delay(res) ==
    LET h == res.retry_after IN
    CASE h.kind = "none" -> NoDelay
      [] h.kind = "secs" -> SomeDelay(10 * h.val)
      [] h.kind = "date" -> IF h.val >= 0 THEN SomeDelay(h.val) ELSE NoDelay
      [] OTHER -> NoDelay

(* Variant: the Retry-After of the response is ignored. *)
RetryDelayNoHint(cfg, delay, res) == delay * 2

(* The delay Retry::handle sleeps after a retryable response, from its     *)
(* configuration cfg, its current delay and the response.                  *)
RetryDelay(cfg, delay, res) ==
    LET custom_delay == calc_delay(res) IN
    IF custom_delay.some THEN custom_delay.val ELSE delay * 2

(* Variant: one attempt more before giving up. *)
RetryExhaustedLate(cfg, i) == i > cfg.max_retries + 1

RetryExhausted(cfg, i) == i > cfg.max_retries

(* Variant: every server error is retried too. *)
ShouldRetryServerErrors(cfg, res) == res.status \in cfg.retry_codes \/ res.status >= 500

ShouldRetry(cfg, res) == res.status \in cfg.retry_codes

(* Variant: a downstream error is retried like a retryable status. *)
RetryOnErrorRetry(err) == "retry"

(* What Retry::handle does with a downstream error *)
RetryOnError(err) == "return"

(* Variant: the last allowed redirect is refused. *)
FollowExhaustedEarly(allowed) == allowed <= 1

(* The test `allowed_redirects == 0` of Follow::handle *)
FollowExhausted(allowed) == allowed = 0

is_redirection(status) == 300 <= status /\ status < 400

fix_url(original, redirect_url) ==
    LET a == IF redirect_url.authority = "" THEN original.authority ELSE redirect_url.authority
        s == IF redirect_url.scheme = "" THEN original.scheme ELSE redirect_url.scheme
    IN  Uri(s, a, redirect_url.path)

(* Variant: a redirected request is sent as a GET without a body. *)
FollowRedirectAsGet(req, redirect) ==
    [req EXCEPT !.uri = fix_url(req.uri, redirect), !.method = "GET", !.body = EmptyBody]

(* The request Follow::handle runs for a redirect: `request` is the        *)
(* binding visible at the top of the loop body, which is the handle's      *)
(* parameter (the clone made in the loop body lives only to its end).      *)
FollowRedirectRequest(req, redirect) ==
    LET url == fix_url(req.uri, redirect) IN
    [req EXCEPT !.uri = url]

----------------------------------------------------------------------------
(* Recorder: in-memory messages, JSON values and names                     *)
(*                                                                         *)
(* A header name or JSON key is the sequence of its maximal alphanumeric   *)
(* runs and the separators between them: "set-cookie" is                   *)
(* <<"set", "-", "cookie">>.                                               *)

(* serde_json::Value; kids holds the members of an object (k: the key) or  *)
(* the elements of an array (k: empty).                                    *)
NoKey == <<>>

JNull == [t |-> "null", s |-> "", n |-> 0, kids |-> <<>>]

JString(s) == [t |-> "string", s |-> s, n |-> 0, kids |-> <<>>]

JNumber(n) == [t |-> "number", s |-> "", n |-> n, kids |-> <<>>]

JMember(k, v) == [k |-> k, v |-> v]

JArray(vs) ==
    [t |-> "array", s |-> "", n |-> 0,
     kids |-> [i \in 1..Len(vs) |-> JMember(NoKey, vs[i])]]

JObject(ms) == [t |-> "object", s |-> "", n |-> 0, kids |-> ms]

(* InMemoryBody: Empty, Json(Value), Bytes(Vec<u8>), Text(String) *)
InMemoryBody(variant, text, bytes, json) ==
    [variant |-> variant, text |-> text, bytes |-> bytes, json |-> json]

Body_Empty == InMemoryBody("Empty", "", <<>>, JNull)

Body_Json(v) == InMemoryBody("Json", "", <<>>, v)

Body_Bytes(b) == InMemoryBody("Bytes", "", b, JNull)

Body_Text(s) == InMemoryBody("Text", s, <<>>, JNull)

(* http::Uri with its query *)
UriQ(s, a, p, q) == [scheme |-> s, authority |-> a, path |-> p, query |-> q]

InMemoryRequest(m, u, h, b) ==
    [method |-> m, uri |-> u, version |-> "HTTP/1.1", headers |-> h, body |-> b]

InMemoryResponse(st, h, b) ==
    [status |-> st, version |-> "HTTP/1.1", headers |-> h, body |-> b]

(* The bytes of the strings the model uses *)
Utf8(s) ==
    CASE s = "" -> <<>>
      [] s = "hi" -> <<104, 105>>
      [] s = "ok" -> <<111, 107>>
      [] s = "h&eacute;" -> <<104, 195, 169>>    \* h, e with acute accent
      [] OTHER -> <<0>>

(* char::to_ascii_lowercase over the words the model uses *)
to_ascii_lowercase(w) ==
    CASE w = "Password" -> "password"
      [] w = "GET" -> "get"
      [] w = "POST" -> "post"
      [] OTHER -> w

----------------------------------------------------------------------------
(* Sanitizer *)

SANITIZED_VALUE == "**********"

as_lowercase(key) == [i \in 1..Len(key) |-> to_ascii_lowercase(key[i])]

(* (?i)((\b|[-_])secret(\b|[-_])|...): one of the words, bounded on both   *)
(* sides by a word boundary, a hyphen or an underscore                     *)
regex_is_match(key) ==
    \E i \in 1..Len(key) :
        to_ascii_lowercase(key[i]) \in {"secret", "key", "pkey", "session", "password"}

should_sanitize(key) ==
    LET k == as_lowercase(key)
    IN  \/ k = <<"authorization">>
        \/ k = <<"cookie">>
        \/ k = <<"set", "-", "cookie">>
        \/ k = <<"password">>
        \/ regex_is_match(k)

sanitize_value_shallow(value) ==
    IF value.t = "object"
    THEN [value EXCEPT !.kids =
            [i \in 1..Len(@) |->
                IF should_sanitize(@[i].k)
                THEN JMember(@[i].k, JString(SANITIZED_VALUE))
                ELSE @[i]]]
    ELSE value

RECURSIVE sanitize_value(_)
sanitize_value(value) ==
    CASE value.t = "object" ->
            [value EXCEPT !.kids =
                [i \in 1..Len(@) |->
                    IF should_sanitize(@[i].k)
                    THEN JMember(@[i].k, JString(SANITIZED_VALUE))
                    ELSE JMember(@[i].k, sanitize_value(@[i].v))]]
      [] value.t = "array" ->
            [value EXCEPT !.kids =
                [i \in 1..Len(@) |-> JMember(@[i].k, sanitize_value(@[i].v))]]
      [] OTHER -> value

sanitize_headers(headers) ==
    { Header(h.name, IF should_sanitize(h.name) THEN SANITIZED_VALUE ELSE h.value)
        : h \in headers }

InMemoryBody_sanitize(body) ==
    IF body.variant = "Json" THEN Body_Json(sanitize_value(body.json)) ELSE body

InMemoryRequest_sanitize(req) ==
    [req EXCEPT !.headers = sanitize_headers(@), !.body = InMemoryBody_sanitize(@)]

InMemoryResponse_sanitize(res) ==
    [res EXCEPT !.headers = sanitize_headers(@), !.body = InMemoryBody_sanitize(@)]

(* sanitize_request and sanitize_response: headers and, for JSON bodies,  *)
(* keys, in place                                                          *)
sanitize_request(req) == InMemoryRequest_sanitize(req)

sanitize_response(res) == InMemoryResponse_sanitize(res)

----------------------------------------------------------------------------
(* Fingerprint: Hash and PartialEq of HashableRequest *)

(* What InMemoryBody::hash writes to the hasher: bytes, or the bytes of    *)
(* the rendering v.to_string() of a JSON value that is not a string.       *)
HashInput(bytes, rendered) == [bytes |-> bytes, rendered |-> rendered]

InMemoryBody_hash(body) ==
    CASE body.variant = "Empty" -> HashInput(<<>>, JNull)
      [] body.variant = "Bytes" -> HashInput(body.bytes, JNull)
      [] body.variant = "Text" -> HashInput(Utf8(body.text), JNull)
      [] body.variant = "Json" /\ body.json.t = "string" ->
            HashInput(Utf8(body.json.s), JNull)
      [] OTHER -> HashInput(<<>>, body.json)

HashableRequest_hash(req) == <<req.method, req.uri, InMemoryBody_hash(req.body)>>

calculate_hash(req) == HashableRequest_hash(req)

InMemoryBody_eq(a, b) ==
    CASE a.variant = "Empty" /\ b.variant = "Empty" -> TRUE
      [] a.variant = "Text" /\ b.variant = "Text" -> a.text = b.text
      [] a.variant = "Bytes" /\ b.variant = "Bytes" -> a.bytes = b.bytes
      [] a.variant = "Json" /\ b.variant = "Json" -> a.json = b.json
      [] OTHER -> FALSE

HashableRequest_eq(a, b) ==
    IF ~(a.method = b.method /\ a.uri = b.uri)
    THEN FALSE
    ELSE InMemoryBody_eq(a.body, b.body)

----------------------------------------------------------------------------
(* Recording file format: Serialize and Deserialize *)

InMemoryBody_is_empty(body) ==
    CASE body.variant = "Empty" -> TRUE
      [] body.variant = "Bytes" -> body.bytes = <<>>
      [] body.variant = "Text" -> body.text = ""
      [] OTHER -> FALSE

(* #[serde(untagged)] Serialize: the variant's content, with no tag *)
InMemoryBody_serialize(body) ==
    CASE body.variant = "Empty" -> JNull
      [] body.variant = "Json" -> body.json
      [] body.variant = "Bytes" ->
            JArray([i \in 1..Len(body.bytes) |-> JNumber(body.bytes[i])])
      [] OTHER -> JString(body.text)

(* #[serde(untagged)] Deserialize: the first variant, in declaration order *)
(* Empty, Json, Bytes, Text, that accepts the value; Json(Value) accepts   *)
(* every value                                                             *)
InMemoryBody_deserialize(v) ==
    IF v.t = "null" THEN Body_Empty ELSE Body_Json(v)

(* BTreeMap<name, value> collected from the header map *)
OrderedHeaders(headers) ==
    [n \in {h.name : h \in headers} |-> (CHOOSE h \in headers : h.name = n).value]

HeaderMap_from_iter(ordered) == { Header(n, ordered[n]) : n \in DOMAIN ordered }

serialize_request(req) ==
    [method |-> req.method,
     url |-> req.uri,
     headers |-> OrderedHeaders(req.headers),
     has_body |-> ~InMemoryBody_is_empty(req.body),
     body |-> IF ~InMemoryBody_is_empty(req.body)
              THEN InMemoryBody_serialize(req.body) ELSE JNull]

deserialize_request(doc) ==
    [method |-> doc.method,
     uri |-> doc.url,
     version |-> "HTTP/1.1",
     headers |-> HeaderMap_from_iter(doc.headers),
     body |-> IF doc.has_body THEN InMemoryBody_deserialize(doc.body) ELSE Body_Empty]

serialize_response(res) ==
    [status |-> res.status,
     headers |-> OrderedHeaders(res.headers),
     body |-> InMemoryBody_serialize(res.body)]

deserialize_response(doc) ==
    [status |-> doc.status,
     version |-> "HTTP/1.1",
     headers |-> HeaderMap_from_iter(doc.headers),
     body |-> InMemoryBody_deserialize(doc.body)]

(* RequestResponsePair, as serde_json::to_string_pretty writes it *)
RequestResponsePair(req, res) ==
    [request |-> serialize_request(req), response |-> serialize_response(res)]

----------------------------------------------------------------------------
(* RequestRecorder: the IndexMap, the recording directory, the RwLock *)

Entry(k, v) == [key |-> k, value |-> v]

(* The positions of the map whose key has the hash of req and equals it *)
IndexMap_find(map, req) ==
    { i \in 1..Len(map) :
        /\ HashableRequest_hash(map[i].key) = HashableRequest_hash(req)
        /\ HashableRequest_eq(map[i].key, req) }

NotRecorded == [found |-> FALSE, value |-> InMemoryResponse(0, {}, Body_Empty)]

IndexMap_get(map, req) ==
    IF IndexMap_find(map, req) = {}
    THEN NotRecorded
    ELSE [found |-> TRUE,
          value |-> map[CHOOSE i \in IndexMap_find(map, req) : TRUE].value]

insert_full_append(map, key, value) ==
    [map |-> Append(map, Entry(key, value)), index |-> Len(map)]

(* IndexMap::insert_full: an equal key keeps its position and its stored   *)
(* key and takes the new value; a new key is appended                      *)
insert_full(map, key, value) ==
    IF IndexMap_find(map, key) = {}
    THEN [map |-> Append(map, Entry(key, value)), index |-> Len(map)]
    ELSE LET i == CHOOSE j \in IndexMap_find(map, key) : TRUE
         IN  [map |-> [map EXCEPT ![i].value = value], index |-> i - 1]

(* <base>/<host>/<path without its leading slash>/<method-lowercase> *)
partial_filepath(req) ==
    [host |-> req.uri.authority,
     path |-> req.uri.path,
     method |-> to_ascii_lowercase(req.method)]

with_extension_fixed(partial_path, idx) ==
    [host |-> partial_path.host, path |-> partial_path.path,
     method |-> partial_path.method, idx |-> 0]

(* partial_path.with_extension(format!("{idx:04}.json")) *)
with_extension(partial_path, idx) ==
    [host |-> partial_path.host, path |-> partial_path.path,
     method |-> partial_path.method, idx |-> idx]

fs_write_lost(dir, path, contents) == dir

(* fs::write: creates the file or replaces its contents *)
fs_write(dir, path, contents) ==
    [p \in DOMAIN dir \cup {path} |-> IF p = path THEN contents ELSE dir[p]]

(* The order of file names "<method>.<idx>.json" as strings *)
MethodRank(m) == CASE m = "get" -> 1 [] m = "post" -> 2 [] OTHER -> 3

FilenameLeq(p, q) ==
    \/ MethodRank(p.method) < MethodRank(q.method)
    \/ MethodRank(p.method) = MethodRank(q.method) /\ p.idx <= q.idx

(* load_requests and the stable sort by file name: the files in file-name  *)
(* order; files of equal name stay in the order the directory walk gave    *)
LoadOrders(dir) ==
    { o \in [1..Cardinality(DOMAIN dir) -> DOMAIN dir] :
        /\ \A i, j \in DOMAIN o : i # j => o[i] # o[j]
        /\ \A i, j \in DOMAIN o : i < j => FilenameLeq(o[i], o[j]) }

(* collect::<IndexMap<_, _>>() of the loaded recordings *)
RECURSIVE CollectRecordings(_, _, _)
CollectRecordings(dir, order, map) ==
    IF order = <<>>
    THEN map
    ELSE LET rr == dir[Head(order)]
         IN  CollectRecordings(dir, Tail(order),
                 insert_full(map, deserialize_request(rr.request),
                             deserialize_response(rr.response)).map)

(* std::sync::RwLock: any number of readers, or one writer *)
RwLock_new == [readers |-> {}, writer |-> 0]

RwLock_can_read(l) == l.writer = 0

RwLock_can_write(l) == l.writer = 0 /\ l.readers = {}

RwLock_read(l, t) == [l EXCEPT !.readers = @ \cup {t}]

RwLock_write(l, t) == [l EXCEPT !.writer = t]

RwLock_drop_read(l, t) == [l EXCEPT !.readers = @ \ {t}]

RwLock_keep_write(l, t) == l

RwLock_drop_write(l, t) == [l EXCEPT !.writer = 0]

RwLock_holds(l, t) == t \in l.readers \/ l.writer = t

(* RecorderMode *)
RecorderModes == {"RecordOrRequest", "IgnoreRecordings", "ForceNoRequests"}

should_lookup(mode) ==
    CASE mode = "RecordOrRequest" -> TRUE
      [] mode = "IgnoreRecordings" -> FALSE
      [] mode = "ForceNoRequests" -> TRUE

should_request_always(mode) == TRUE

should_request(mode) ==
    CASE mode = "RecordOrRequest" -> TRUE
      [] mode = "IgnoreRecordings" -> TRUE
      [] mode = "ForceNoRequests" -> FALSE

----------------------------------------------------------------------------
(* State after construction: RequestBuilder::new *)

Init ==
    /\ phase = "build"
    /\ middlewares = <<>>
    /\ installed = <<>>
    /\ request \in Requests
    /\ stack = [p \in Pipelines |-> <<>>]
    /\ call = [p \in Pipelines |-> NoCall]
    /\ retval = [p \in Pipelines |-> NoVal]
    /\ result = [p \in Pipelines |-> NoVal]
    /\ lastReq = [p \in Pipelines |-> NoRequest]
    /\ behind = 0
    /\ lastResp = NoVal
    /\ turn = 1
    /\ requests = <<>>
    /\ files = <<>>
    /\ lock = RwLock_new
    /\ access_token = ""
    /\ token_lock = RwLock_new
    /\ token_type = "Bearer"
    /\ refresh_token = "r0"
    /\ task = <<>>

buildVars == <<middlewares, installed, request>>

----------------------------------------------------------------------------
(* Builder *)

BuilderMiddleware(m) ==
    /\ phase = "build"
    /\ Len(middlewares) < MaxMw
    /\ middlewares' = PushMiddleware(middlewares, m)
    /\ installed' = Append(installed, m)
    /\ UNCHANGED <<recVars, phase, request, stack, call, retval, result, lastReq,
                   behind, lastResp, turn>>

(* RequestBuilder::send: Next { middlewares: &middlewares }.run(request) *)
Send ==
    /\ phase = "build"
    /\ phase' = "run"
    /\ call' = [p \in Pipelines |->
                  IF p = 1 \/ HasPass(middlewares)
                  THEN Call(request, Positions(MwList(p)))
                  ELSE NoCall]
    /\ result' = [p \in Pipelines |->
                  IF p = 1 \/ HasPass(middlewares) THEN NoVal ELSE Absent]
    /\ UNCHANGED <<recVars, buildVars, stack, retval, lastReq, behind, lastResp, turn>>

----------------------------------------------------------------------------
(* Pipeline driver *)

Running(p) == phase = "run" /\ turn = p /\ result[p] = NoVal

Top(p) == stack[p][Len(stack[p])]

AtTop(p, k, pc) ==
    /\ Running(p)
    /\ ~call[p].active
    /\ stack[p] # <<>>
    /\ Top(p).kind = k
    /\ Top(p).pc = pc

SetTop(p, f) == [stack EXCEPT ![p] = [@ EXCEPT ![Len(@)] = f]]

NewFrame(m, idx, req, rest) ==
    [NoFrame EXCEPT !.kind = m.kind, !.cfg = m.cfg, !.idx = idx, !.req = req,
                    !.rest = rest,
                    !.pc = IF m.kind = "Retry" THEN "loop" ELSE "start",
                    !.delay = IF m.kind = "Retry" THEN InitialDelay ELSE 0]

(* The top frame f calls next.run(req). *)
CallNext(p, f, req) ==
    /\ stack' = SetTop(p, [f EXCEPT !.pc = "await", !.calls = @ + 1, !.sent_uri = req.uri])
    /\ call' = [call EXCEPT ![p] = Call(req, f.rest)]

(* The top frame f, having last received `got` from next.run, returns v. *)
Return(p, f, got, v) ==
    /\ stack' = SetTop(p, [f EXCEPT !.pc = "done", !.got = got])
    /\ retval' = [retval EXCEPT ![p] = v]

(* Pipeline p ended with v: the other pipeline runs on, if it has not ended. *)
EndWith(p, v) ==
    /\ result' = [result EXCEPT ![p] = v]
    /\ turn' = IF result[Other(p)] = NoVal THEN Other(p) ELSE p
    /\ phase' = IF result[Other(p)] = NoVal THEN phase ELSE "done"

(* Next::run with a middleware left: middleware.handle(request, Next{rest}) *)
NextRun(p) ==
    /\ Running(p)
    /\ call[p].active
    /\ call[p].mws # <<>>
    /\ LET sf == SplitFirst(call[p].mws) IN
       stack' = [stack EXCEPT ![p] =
                    Append(@, NewFrame(MwList(p)[sf.middleware], sf.middleware,
                                       call[p].req, sf.rest))]
    /\ call' = [call EXCEPT ![p] = NoCall]
    /\ UNCHANGED <<recVars, phase, buildVars, retval, result, lastReq,
                   behind, lastResp, turn>>

(* Next::run with no middleware left: the transport terminator.  The     *)
(* pipeline that is one dispatch behind gets the outcome the other one     *)
(* got for that dispatch; otherwise the server's outcome is any.           *)
Transport(p) ==
    /\ Running(p)
    /\ call[p].active
    /\ call[p].mws = <<>>
    /\ \E o \in ServerOutcomes :
          /\ IF behind = p
             THEN o = lastResp /\ behind' = 0 /\ lastResp' = NoVal
             ELSE /\ behind = 0
                  /\ behind' = IF result[Other(p)] = Absent THEN 0 ELSE Other(p)
                  /\ lastResp' = IF result[Other(p)] = Absent THEN NoVal ELSE o
          /\ retval' = [retval EXCEPT ![p] = o]
    /\ lastReq' = [lastReq EXCEPT ![p] = WireRequest(call[p].req)]
    /\ call' = [call EXCEPT ![p] = NoCall]
    /\ turn' = IF result[Other(p)] = NoVal THEN Other(p) ELSE p
    /\ UNCHANGED <<recVars, phase, buildVars, stack, result>>

(* A handle() that has returned leaves the stack; its value goes to the   *)
(* frame that awaits it.                                                   *)
HandleReturn(p) ==
    /\ AtTop(p, Top(p).kind, "done")
    /\ stack' = [stack EXCEPT ![p] = SubSeq(@, 1, Len(@) - 1)]
    /\ UNCHANGED <<recVars, phase, buildVars, call, retval, result, lastReq,
                   behind, lastResp, turn>>

(* send() returns what the outermost Next::run returned. *)
Finish(p) ==
    /\ Running(p)
    /\ ~call[p].active
    /\ stack[p] = <<>>
    /\ retval[p] # NoVal
    /\ EndWith(p, retval[p])
    /\ retval' = [retval EXCEPT ![p] = NoVal]
    /\ UNCHANGED <<recVars, buildVars, stack, call, lastReq, behind, lastResp>>

----------------------------------------------------------------------------
(* Middleware::handle, the default implementation: next.run(request).await *)

PassHandle(p) ==
    /\ AtTop(p, "Pass", "start")
    /\ CallNext(p, Top(p), PassRequest(Top(p).req))
    /\ UNCHANGED <<recVars, phase, buildVars, retval, result, lastReq,
                   behind, lastResp, turn>>

PassReturn(p) ==
    /\ AtTop(p, "Pass", "await")
    /\ retval[p] # NoVal
    /\ Return(p, Top(p), retval[p], retval[p])
    /\ UNCHANGED <<recVars, phase, buildVars, call, result, lastReq,
                   behind, lastResp, turn>>

----------------------------------------------------------------------------
(* Retry::handle *)

(* Top of the loop: i += 1; give up or run the request again. *)
RetryLoop(p) ==
    /\ AtTop(p, "Retry", "loop")
    /\ LET f == [Top(p) EXCEPT !.i = @ + 1] IN
       IF RetryExhausted(f.cfg, f.i)
       THEN /\ Return(p, f, NoVal, Err("TooManyRetries"))
            /\ UNCHANGED call
       ELSE /\ CallNext(p, f, f.req)
            /\ UNCHANGED retval
    /\ UNCHANGED <<recVars, phase, buildVars, result, lastReq, behind, lastResp, turn>>

(* next.run returned: pass on an error or a response that is not           *)
(* retryable, otherwise compute the delay and go to sleep.                 *)
RetryAwait(p) ==
    /\ AtTop(p, "Retry", "await")
    /\ retval[p] # NoVal
    /\ LET v == retval[p]
           f == Top(p) IN
       IF (v.kind = "err" /\ RetryOnError(v.err) = "return")
          \/ (v.kind = "ok" /\ ~ShouldRetry(f.cfg, v.res))
       THEN Return(p, f, v, v)
       ELSE /\ stack' = SetTop(p, [f EXCEPT
                           !.delay = IF v.kind = "ok"
                                     THEN RetryDelay(f.cfg, f.delay, v.res) ELSE @,
                           !.hinted = v.kind = "ok" /\ calc_delay(v.res).some,
                           !.nretry = IF v.kind = "ok" /\ v.res.status \in f.cfg.retry_codes
                                      THEN @ + 1 ELSE @,
                           !.pc = "sleep"])
            /\ retval' = [retval EXCEPT ![p] = NoVal]
    /\ UNCHANGED <<recVars, phase, buildVars, call, result, lastReq, behind, lastResp, turn>>

(* tokio::time::sleep(delay) is over. *)
RetrySleep(p) ==
    /\ AtTop(p, "Retry", "sleep")
    /\ stack' = SetTop(p, [Top(p) EXCEPT !.sleeps = @ + 1, !.pc = "loop"])
    /\ UNCHANGED <<recVars, phase, buildVars, call, retval, result, lastReq,
                   behind, lastResp, turn>>

----------------------------------------------------------------------------
(* Follow::handle *)

FollowStart(p) ==
    /\ AtTop(p, "Follow", "start")
    /\ CallNext(p, [Top(p) EXCEPT !.allowed = AllowedRedirects], Top(p).req)
    /\ UNCHANGED <<recVars, phase, buildVars, retval, result, lastReq,
                   behind, lastResp, turn>>

(* next.run returned an error (`?`) or a response that is not a redirect. *)
FollowReturn(p) ==
    /\ AtTop(p, "Follow", "await")
    /\ retval[p] # NoVal
    /\ retval[p].kind = "err" \/ ~is_redirection(retval[p].res.status)
    /\ Return(p, Top(p), retval[p], retval[p])
    /\ UNCHANGED <<recVars, phase, buildVars, call, result, lastReq,
                   behind, lastResp, turn>>

(* A redirect with no redirects left. *)
FollowTooMany(p) ==
    /\ AtTop(p, "Follow", "await")
    /\ retval[p].kind = "ok"
    /\ is_redirection(retval[p].res.status)
    /\ FollowExhausted(Top(p).allowed)
    /\ Return(p, [Top(p) EXCEPT !.nredir = @ + 1], retval[p], Err("TooManyRedirects"))
    /\ UNCHANGED <<recVars, phase, buildVars, call, result, lastReq,
                   behind, lastResp, turn>>

(* A redirect with a Location header: run the request at the new URI. *)
FollowRedirect(p) ==
    /\ AtTop(p, "Follow", "await")
    /\ retval[p].kind = "ok"
    /\ is_redirection(retval[p].res.status)
    /\ ~FollowExhausted(Top(p).allowed)
    /\ retval[p].res.location.present
    /\ CallNext(p, [Top(p) EXCEPT !.allowed = @ - 1, !.nredir = @ + 1],
                FollowRedirectRequest(Top(p).req, retval[p].res.location.uri))
    /\ retval' = [retval EXCEPT ![p] = NoVal]
    /\ UNCHANGED <<recVars, phase, buildVars, result, lastReq, behind, lastResp, turn>>

(* A redirect without a Location header: .expect() panics and the task    *)
(* that awaits the request unwinds.                                        *)
FollowNoLocation(p) ==
    /\ AtTop(p, "Follow", "await")
    /\ retval[p].kind = "ok"
    /\ is_redirection(retval[p].res.status)
    /\ ~FollowExhausted(Top(p).allowed)
    /\ ~retval[p].res.location.present
    /\ stack' = [stack EXCEPT ![p] = <<>>]
    /\ retval' = [retval EXCEPT ![p] = NoVal]
    /\ EndWith(p, Panic)
    /\ UNCHANGED <<recVars, buildVars, call, lastReq, behind, lastResp>>

----------------------------------------------------------------------------

Build == \E m \in MiddlewareInstances : BuilderMiddleware(m)

Step(p) ==
    \/ NextRun(p)
    \/ Transport(p)
    \/ HandleReturn(p)
    \/ Finish(p)
    \/ PassHandle(p)
    \/ PassReturn(p)
    \/ RetryLoop(p)
    \/ RetryAwait(p)
    \/ RetrySleep(p)
    \/ FollowStart(p)
    \/ FollowReturn(p)
    \/ FollowTooMany(p)
    \/ FollowRedirect(p)
    \/ FollowNoLocation(p)

Run == \E p \in Pipelines : Step(p)

Next == Build \/ Send \/ Run

Spec == Init /\ [][Next]_vars

(* The same steps with the builder given one Retry configuration, under   *)
(* fairness: the caller awaits the request, and the executor polls a ready *)
(* future.                                                                 *)
FairBuild == \E m \in {PassMw, FollowMw, RetryCustom} : BuilderMiddleware(m)

FairNext == FairBuild \/ Send \/ Run

FairSpec == Init /\ [][FairNext]_vars /\ WF_vars(Send) /\ WF_vars(Run)

----------------------------------------------------------------------------
(* Requests in flight through a Recorder or an OAuth2 middleware           *)
(*                                                                         *)
(* Each task is one request handled by Recorder::handle, all sharing       *)
(* shared_recorder(), or by OAuth2::handle, all sharing one OAuth2         *)
(* instance.  What lies downstream of the middleware is its next.run: a    *)
(* call that is answered with a response or a ProtocolError.  A step of a  *)
(* task runs from one suspension point or file operation to the next.      *)

Tasks == 1..NumTasks

NameAuthorization == <<"authorization">>

RecUri(q) == UriQ("https", "api.test", "/x", q)

RequestJson ==
    JObject(<<JMember(<<"Password">>, JString("hunter2")),
              JMember(<<"email">>, JString("a"))>>)

RequestGet ==
    InMemoryRequest("GET", RecUri("a=1"),
        {Header(NameAuthorization, "Bearer secret"),
         Header(<<"user", "-", "agent">>, "httpclient")}, Body_Empty)

RequestPostJson ==
    InMemoryRequest("POST", RecUri(""),
        {Header(<<"content", "-", "type">>, "application/json")},
        Body_Json(RequestJson))

RequestPostText ==
    InMemoryRequest("POST", RecUri(""),
        {Header(<<"x", "-", "api", "-", "key">>, "k0")}, Body_Text("hi"))

RecRequests == {RequestGet, RequestPostJson}

ResponseJson ==
    JObject(<<JMember(<<"ip">>, JString("1.2.3.4")),
              JMember(<<"users">>,
                  JArray(<<JObject(<<JMember(<<"api", "_", "key">>, JString("k1"))>>)>>))>>)

RecResponses ==
    { InMemoryResponse(200, {Header(<<"set", "-", "cookie">>, "sid=1")},
          Body_Json(ResponseJson)),
      InMemoryResponse(200, {}, Body_Text("ok")) }

(* What next.run and the read of the response body give: a response held  *)
(* in memory, or the ProtocolError of the transport or of the body read    *)
RecOutcomes == {Ok(r) : r \in RecResponses} \cup {Err("ConnectionError")}

NoRes == InMemoryResponse(0, {}, Body_Empty)

NoReq == InMemoryRequest("", RecUri(""), {}, Body_Empty)

IdleTask ==
    [kind |-> "", mode |-> "", pc |-> "idle", req |-> NoReq, res |-> NoRes,
     ret |-> NoVal, calls |-> 0, hit |-> FALSE, idx |-> 0, overlap |-> {},
     sent |-> <<>>, got |-> <<>>, cb |-> <<>>, timeout |-> 0, elapsed |-> 0,
     cfg |-> NoCfg, i |-> 0, delay |-> 0, slept |-> <<>>, hits |-> <<>>]

(* The requests whose lookup is done and whose insert is still to come *)
BeforeInsert ==
    {u \in Tasks : task[u].kind = "Recorder"
                   /\ task[u].pc \in {"next_run", "record_response"}}

(* Those of them in RecordOrRequest mode with the fingerprint of req *)
SameInFlight(req) ==
    {u \in BeforeInsert : /\ task[u].mode = "RecordOrRequest"
                          /\ HashableRequest_eq(task[u].req, req)}

(* The path record_response writes for a task's request *)
RecordingPath(tk) == with_extension(partial_filepath(tk.req), tk.idx)

RecInit ==
    /\ phase = "off"
    /\ middlewares = <<>>
    /\ installed = <<>>
    /\ request = NoRequest
    /\ stack = [p \in Pipelines |-> <<>>]
    /\ call = [p \in Pipelines |-> NoCall]
    /\ retval = [p \in Pipelines |-> NoVal]
    /\ result = [p \in Pipelines |-> NoVal]
    /\ lastReq = [p \in Pipelines |-> NoRequest]
    /\ behind = 0
    /\ lastResp = NoVal
    /\ turn = 1
    /\ requests = <<>>
    /\ files = <<>>
    /\ lock = RwLock_new
    /\ access_token = "old"
    /\ token_lock = RwLock_new
    /\ token_type = "Bearer"
    /\ refresh_token = "r0"
    /\ task = [t \in Tasks |-> IdleTask]

oauthVars == <<access_token, token_lock, token_type, refresh_token>>

storeVars == <<requests, files, lock>>

(* Tasks are numbered in the order in which their requests arrive *)
Arrives(t) ==
    /\ task[t].pc = "idle"
    /\ IF t = 1 THEN TRUE ELSE task[t - 1].pc # "idle"

SetTask(t, tk) == [task EXCEPT ![t] = tk]

(* Recorder::handle up to its first suspension after the lookup:           *)
(* get_response under the read lock, then the recorded response, the       *)
(* not-found error, or the call of next.run                                *)
RecorderHandle(t, mode, req) ==
    /\ Arrives(t)
    /\ LET recorded == IndexMap_get(requests, req)
           tk == [IdleTask EXCEPT !.kind = "Recorder", !.mode = mode, !.req = req,
                                  !.overlap = IF mode = "RecordOrRequest"
                                               THEN SameInFlight(req) ELSE {}]
       IN  /\ should_lookup(mode) => RwLock_can_read(lock)
           /\ lock' = IF should_lookup(mode)
                      THEN RwLock_drop_read(RwLock_read(lock, t), t)
                      ELSE lock
           /\ task' = SetTask(t,
                 IF should_lookup(mode) /\ recorded.found
                 THEN [tk EXCEPT !.pc = "done", !.hit = TRUE,
                                 !.ret = Ok(recorded.value)]
                 ELSE IF ~should_request(mode)
                 THEN [tk EXCEPT !.pc = "done", !.ret = Err("NotFound")]
                 ELSE [tk EXCEPT !.pc = "next_run", !.calls = 1])
    /\ UNCHANGED <<pipelineVars, requests, files, oauthVars>>

(* next.run(request.clone()).await? and response_into_content(..).await? *)
RecorderAwaitWith(t, o) ==
    /\ task[t].kind = "Recorder"
    /\ task[t].pc = "next_run"
    /\ task' = SetTask(t,
              IF o.kind = "ok"
              THEN [task[t] EXCEPT !.pc = "record_response", !.res = o.res]
              ELSE [task[t] EXCEPT !.pc = "done", !.ret = o])
    /\ UNCHANGED <<pipelineVars, storeVars, oauthVars>>

RecorderAwait(t) == \E o \in RecOutcomes : RecorderAwaitWith(t, o)

(* record_response up to the end of the block that holds the write lock *)
RecordResponseInsert(t) ==
    /\ task[t].kind = "Recorder"
    /\ task[t].pc = "record_response"
    /\ RwLock_can_write(lock)
    /\ LET ins == insert_full(requests, sanitize_request(task[t].req),
                              sanitize_response(task[t].res))
       IN  /\ requests' = ins.map
           /\ task' = SetTask(t, [task[t] EXCEPT !.pc = "fs_write", !.idx = ins.index])
    /\ lock' = RwLock_drop_write(RwLock_write(lock, t), t)
    /\ UNCHANGED <<pipelineVars, files, oauthVars>>

(* create_dir_all, fs::write(&path, stringified)? and the return of the   *)
(* live response                                                           *)
RecordResponseWrite(t) ==
    /\ task[t].kind = "Recorder"
    /\ task[t].pc = "fs_write"
    /\ \E written \in BOOLEAN :
          IF written
          THEN /\ files' = fs_write(files, RecordingPath(task[t]),
                               RequestResponsePair(sanitize_request(task[t].req),
                                                   sanitize_response(task[t].res)))
               /\ task' = SetTask(t, [task[t] EXCEPT !.pc = "done",
                                                     !.ret = Ok(task[t].res)])
          ELSE /\ files' = files
               /\ task' = SetTask(t, [task[t] EXCEPT !.pc = "done",
                                                     !.ret = Err("IoError")])
    /\ UNCHANGED <<pipelineVars, requests, lock, oauthVars>>

(* RequestRecorder::new in a new process: no request is in flight, the map *)
(* is what the recording directory holds                                   *)
Restart ==
    /\ \A t \in Tasks : task[t].pc \in {"idle", "done"}
    /\ \E t \in Tasks : task[t].pc = "done"
    /\ \E o \in LoadOrders(files) : requests' = CollectRecordings(files, o, <<>>)
    /\ requests' # requests
    /\ UNCHANGED <<pipelineVars, files, lock, oauthVars, task>>

----------------------------------------------------------------------------
(* OAuth2 *)

OAuthRequest == InMemoryRequest("GET", RecUri("a=1"), {}, Body_Empty)

(* TokenType::Other(s): the name of the custom credential header *)
NameCustom == <<"x", "-", "auth">>

(* A caller's request that already has values for both credential headers *)
OAuthRequestStale ==
    InMemoryRequest("GET", RecUri("a=1"),
        {Header(NameAuthorization, "Bearer stale"),
         Header(NameAuthorization, "Basic stale"),
         Header(NameCustom, "stale")}, Body_Empty)

OAuthRequests == {OAuthRequest, OAuthRequestStale}

TokenTypes == {"Bearer", "Other"}

(* format!("Bearer {}", access_token) *)
BearerValue(token) ==
    CASE token = "old" -> "Bearer old"
      [] token = "new" -> "Bearer new"
      [] OTHER -> "Bearer"

HeaderMap_append(headers, name, value) == headers \cup {Header(name, value)}

(* HeaderMap::insert: the values the name had are replaced *)
HeaderMap_insert(headers, name, value) ==
    {h \in headers : h.name # name} \cup {Header(name, value)}

authorize_not(req, token) == req

(* OAuth2::authorize, under the read lock: Authorization: Bearer <token>,  *)
(* or <custom name>: <token>                                               *)
authorize(req, token) ==
    IF token_type = "Bearer"
    THEN [req EXCEPT !.headers = HeaderMap_insert(@, NameAuthorization, BearerValue(token))]
    ELSE [req EXCEPT !.headers = HeaderMap_insert(@, NameCustom, token)]

(* make_refresh_request(next.client).build(): a POST of the form           *)
(* client_id, client_secret, grant_type, refresh_token                     *)
make_refresh_request(token) ==
    InMemoryRequest("POST", UriQ("https", "auth.test", "/token", ""),
        {Header(<<"content", "-", "type">>, "application/x-www-form-urlencoded")},
        Body_Text(IF token = "r0"
                  THEN "grant_type=refresh_token&refresh_token=r0"
                  ELSE "grant_type=refresh_token&refresh_token=r1"))

(* The refresh request of the instance: &self.refresh_token *)
RefreshRequest == make_refresh_request(refresh_token)

NameAccessToken == <<"access", "_", "token">>

NameExpiresIn == <<"expires", "_", "in">>

NameTokenType == <<"token", "_", "type">>

RefreshResponseOk ==
    InMemoryResponse(200, {},
        Body_Json(JObject(<<JMember(NameAccessToken, JString("new")),
                            JMember(NameExpiresIn, JNumber(3600)),
                            JMember(NameTokenType, JString("Bearer"))>>)))

NameRefreshToken == <<"refresh", "_", "token">>

(* A refresh answer that also carries a new refresh_token *)
RefreshResponseRotated ==
    InMemoryResponse(200, {},
        Body_Json(JObject(<<JMember(NameAccessToken, JString("new")),
                            JMember(NameExpiresIn, JNumber(3600)),
                            JMember(NameTokenType, JString("Bearer")),
                            JMember(NameRefreshToken, JString("r1"))>>)))

(* A 200 answer whose body is not a RefreshResponse *)
RefreshResponseBad ==
    InMemoryResponse(200, {},
        Body_Json(JObject(<<JMember(<<"error">>, JString("invalid_grant"))>>)))

OAuthOutcomes ==
    { Ok(InMemoryResponse(401, {}, Body_Empty)),
      Ok(InMemoryResponse(200, {}, Body_Text("ok"))),
      Ok(InMemoryResponse(400, {}, Body_Empty)),
      Ok(InMemoryResponse(403, {}, Body_Empty)),
      Err("ConnectionError") }

RefreshOutcomes ==
    { Ok(RefreshResponseOk),
      Ok(RefreshResponseRotated),
      Ok(RefreshResponseBad),
      Ok(InMemoryResponse(400, {}, Body_Text("ok"))),
      Ok(InMemoryResponse(500, {}, Body_Empty)),
      Err("ConnectionError") }

is_client_error(status) == 400 <= status /\ status < 500

is_server_error_never(status) == FALSE

is_server_error(status) == 500 <= status /\ status < 600

(* The members of a JSON object body with the given key *)
JsonMembers(body, key) ==
    IF body.variant = "Json" /\ body.json.t = "object"
    THEN {i \in 1..Len(body.json.kids) : body.json.kids[i].k = key}
    ELSE {}

(* body.json::<RefreshResponse>() succeeds: access_token, expires_in and   *)
(* token_type are there with their types                                   *)
RefreshResponse_parses(body) ==
    /\ \E i \in JsonMembers(body, NameAccessToken) : body.json.kids[i].v.t = "string"
    /\ \E i \in JsonMembers(body, NameExpiresIn) : body.json.kids[i].v.t = "number"
    /\ \E i \in JsonMembers(body, NameTokenType) : body.json.kids[i].v.t = "string"

(* data.access_token *)
RefreshResponse_access_token(body) ==
    body.json.kids[CHOOSE i \in JsonMembers(body, NameAccessToken) : TRUE].v.s

(* data.refresh_token, an Option<String>: <<>> is None, <<s>> is Some(s).   *)
(* A refresh_token member that is not a string fails the parse, which the  *)
(* answers of RefreshOutcomes never do.                                     *)
RefreshResponse_refresh_token(body) ==
    IF JsonMembers(body, NameRefreshToken) = {}
    THEN <<>>
    ELSE <<body.json.kids[CHOOSE i \in JsonMembers(body, NameRefreshToken) : TRUE].v.s>>

(* What the callback is given, and the stored token when it runs *)
RefreshData(token, stored) ==
    [access_token |-> token, stored |-> stored, refresh_token |-> <<>>]

(* RefreshData { .., refresh_token: data.refresh_token } *)
RefreshDataOf(body, stored) ==
    [RefreshData(RefreshResponse_access_token(body), stored)
        EXCEPT !.refresh_token = RefreshResponse_refresh_token(body)]

(* OAuth2::handle: authorize, then the first next.run *)
OAuth2Handle(t, req) ==
    /\ Arrives(t)
    /\ RwLock_can_read(token_lock)
    /\ token_lock' = RwLock_drop_read(RwLock_read(token_lock, t), t)
    /\ task' = SetTask(t, [IdleTask EXCEPT !.kind = "OAuth2", !.pc = "next_run",
                                           !.req = authorize(req, access_token),
                                           !.sent = <<authorize(req, access_token)>>,
                                           !.calls = 1])
    /\ UNCHANGED <<pipelineVars, storeVars, access_token, token_type, refresh_token>>

(* What OAuth2::handle does with the first result o *)
OAuth2OnFirst(tk, o) ==
    IF o.kind = "ok" /\ o.res.status = 401
    THEN [tk EXCEPT !.pc = "refresh", !.calls = @ + 1,
                    !.got = Append(@, o),
                    !.sent = Append(@, RefreshRequest)]
    ELSE [tk EXCEPT !.pc = "done", !.ret = o, !.got = Append(@, o)]

(* What it does with the result o of the refresh request *)
OAuth2OnRefresh(tk, o) ==
    IF o.kind = "err" \/ is_client_error(o.res.status)
                      \/ is_server_error(o.res.status)
    THEN [tk EXCEPT !.pc = "done", !.ret = o, !.got = Append(@, o)]
    ELSE [tk EXCEPT !.pc = "store", !.res = o.res, !.got = Append(@, o)]

(* What it does with the result o of the re-run *)
OAuth2OnRerun(tk, o) == [tk EXCEPT !.pc = "done", !.ret = o, !.got = Append(@, o)]

OAuth2FirstOn4xx(t) ==
    /\ task[t].kind = "OAuth2"
    /\ task[t].pc = "next_run"
    /\ \E o \in OAuthOutcomes :
          task' = SetTask(t,
              IF o.kind = "ok" /\ is_client_error(o.res.status)
              THEN [task[t] EXCEPT !.pc = "refresh", !.calls = @ + 1,
                                   !.got = Append(@, o),
                                   !.sent = Append(@, RefreshRequest)]
              ELSE [task[t] EXCEPT !.pc = "done", !.ret = o,
                                   !.got = Append(@, o)])
    /\ UNCHANGED <<pipelineVars, storeVars, oauthVars>>

(* The first result: anything but a 401 response is returned; a 401 is    *)
(* followed by next.run(refresh_req.build())                               *)
OAuth2First(t) ==
    /\ task[t].kind = "OAuth2"
    /\ task[t].pc = "next_run"
    /\ \E o \in OAuthOutcomes : task' = SetTask(t, OAuth2OnFirst(task[t], o))
    /\ UNCHANGED <<pipelineVars, storeVars, oauthVars>>

(* The refresh result and body.into_memory().await? *)
OAuth2Refresh(t) ==
    /\ task[t].kind = "OAuth2"
    /\ task[t].pc = "refresh"
    /\ \E o \in RefreshOutcomes : task' = SetTask(t, OAuth2OnRefresh(task[t], o))
    /\ UNCHANGED <<pipelineVars, storeVars, oauthVars>>

(* body.json()? fails: the JsonError is returned *)
OAuth2JsonError(t) ==
    /\ task[t].kind = "OAuth2"
    /\ task[t].pc = "store"
    /\ ~RefreshResponse_parses(task[t].res.body)
    /\ task' = SetTask(t, [task[t] EXCEPT !.pc = "done", !.ret = Err("JsonError")])
    /\ UNCHANGED <<pipelineVars, storeVars, oauthVars>>

OAuth2StoreAdoptsRefreshToken(t) ==
    /\ task[t].kind = "OAuth2"
    /\ task[t].pc = "store"
    /\ RefreshResponse_parses(task[t].res.body)
    /\ RwLock_can_write(token_lock)
    /\ access_token' = RefreshResponse_access_token(task[t].res.body)
    /\ token_lock' = RwLock_drop_read(
                        RwLock_read(
                           RwLock_drop_write(RwLock_write(token_lock, t), t), t), t)
    /\ task' = SetTask(t, [task[t] EXCEPT
                              !.pc = "rerun", !.calls = @ + 1,
                              !.cb = Append(@, RefreshDataOf(task[t].res.body, access_token')),
                              !.req = authorize(@, access_token'),
                              !.sent = Append(@, authorize(task[t].req, access_token'))])
    /\ refresh_token' = IF RefreshResponse_refresh_token(task[t].res.body) = <<>>
                        THEN refresh_token
                        ELSE RefreshResponse_refresh_token(task[t].res.body)[1]
    /\ UNCHANGED <<pipelineVars, storeVars, token_type>>

(* The token is stored under the write lock, the callback runs, the       *)
(* request is authorized again under the read lock and dispatched          *)
OAuth2Store(t) ==
    /\ task[t].kind = "OAuth2"
    /\ task[t].pc = "store"
    /\ RefreshResponse_parses(task[t].res.body)
    /\ RwLock_can_write(token_lock)
    /\ access_token' = RefreshResponse_access_token(task[t].res.body)
    /\ token_lock' = RwLock_drop_read(
                        RwLock_read(
                           RwLock_drop_write(RwLock_write(token_lock, t), t), t), t)
    /\ task' = SetTask(t, [task[t] EXCEPT
                              !.pc = "rerun", !.calls = @ + 1,
                              !.cb = Append(@, RefreshDataOf(task[t].res.body, access_token')),
                              !.req = authorize(@, access_token'),
                              !.sent = Append(@, authorize(task[t].req, access_token'))])
    /\ UNCHANGED <<pipelineVars, storeVars, token_type, refresh_token>>

OAuth2RerunLoop(t) ==
    /\ task[t].kind = "OAuth2"
    /\ task[t].pc = "rerun"
    /\ \E o \in OAuthOutcomes :
          task' = SetTask(t,
              IF o = Ok(InMemoryResponse(401, {}, Body_Empty)) /\ Len(task[t].sent) < 5
              THEN [task[t] EXCEPT !.pc = "refresh", !.calls = @ + 1,
                                   !.got = Append(@, o),
                                   !.sent = Append(@, RefreshRequest)]
              ELSE [task[t] EXCEPT !.pc = "done", !.ret = o,
                                   !.got = Append(@, o)])
    /\ UNCHANGED <<pipelineVars, storeVars, oauthVars>>

(* The re-run's result is returned, whatever it is *)
OAuth2Rerun(t) ==
    /\ task[t].kind = "OAuth2"
    /\ task[t].pc = "rerun"
    /\ \E o \in OAuthOutcomes : task' = SetTask(t, OAuth2OnRerun(task[t], o))
    /\ UNCHANGED <<pipelineVars, storeVars, oauthVars>>

----------------------------------------------------------------------------
(* Specifications of the recorder and of the two middlewares together *)

RecorderStart == \E t \in Tasks, mode \in RecorderModes, req \in RecRequests :
                    RecorderHandle(t, mode, req)

RecorderStep == \E t \in Tasks :
                    \/ RecorderAwait(t)
                    \/ RecordResponseInsert(t)
                    \/ RecordResponseWrite(t)

RecorderNext == RecorderStart \/ RecorderStep \/ Restart

RecorderSpec == RecInit /\ [][RecorderNext]_vars

OAuth2Step == \E t \in Tasks :
                    \/ \E req \in OAuthRequests : OAuth2Handle(t, req)
                    \/ OAuth2First(t)
                    \/ OAuth2Refresh(t)
                    \/ OAuth2JsonError(t)
                    \/ OAuth2Store(t)
                    \/ OAuth2Rerun(t)

LockedStart == \E t \in Tasks, mode \in RecorderModes :
                    RecorderHandle(t, mode, RequestPostText)

LockedNext == LockedStart \/ RecorderStep \/ OAuth2Step

LockedSpec == RecInit /\ [][LockedNext]_vars

----------------------------------------------------------------------------
(* Awaiting a RequestBuilder: IntoFuture for RequestBuilder *)

(* A response whose body is still the transport's stream of bytes *)
StreamResponse(st, bytes) == InMemoryResponse(st, {}, Body_Bytes(bytes))

AwaitStatuses == {200, 302, 400, 499, 500, 599, 600}

(* "hi", and a byte that is not UTF-8 *)
AwaitBodies == {<<104, 105>>, <<255>>}

(* What send() returns: the value of the pipeline *)
AwaitOutcomes ==
    {Ok(StreamResponse(st, b)) : st \in AwaitStatuses, b \in AwaitBodies}
    \cup {Err("ConnectionError"), Err("TooManyRedirects")}

(* InMemoryResult<InMemoryResponse>: Err(Error::HttpError(r)) and          *)
(* Err(Error::Protocol(e)); Ok(r) is as in ProtocolResult                  *)
HttpError(r) == [kind |-> "http_error", res |-> r, err |-> ""]

Protocol(e) == [kind |-> "protocol", res |-> NoResponse, err |-> e]

(* String::from_utf8 over the bytes the model uses *)
Texts == {"", "hi", "ok"}

from_utf8(bytes) ==
    IF \E s \in Texts : Utf8(s) = bytes
    THEN Body_Text(CHOOSE s \in Texts : Utf8(s) = bytes)
    ELSE Body_Bytes(bytes)

(* The end of into_future once the body is in memory: Bytes become Text    *)
(* when they are UTF-8, then the status decides                            *)
into_future_always_ok(res) == Ok([res EXCEPT !.body = from_utf8(res.body.bytes)])

into_future(res) ==
    LET body == IF res.body.variant = "Bytes" THEN from_utf8(res.body.bytes) ELSE res.body
        r == [res EXCEPT !.body = body]
    IN  IF is_client_error(res.status) \/ is_server_error(res.status)
        THEN HttpError(r)
        ELSE Ok(r)

(* into_future: self.send().await is pending *)
BuilderAwait(t) ==
    /\ Arrives(t)
    /\ task' = SetTask(t, [IdleTask EXCEPT !.kind = "Await", !.pc = "send"])
    /\ UNCHANGED <<pipelineVars, storeVars, oauthVars>>

(* send() has returned: an error is returned as Error::Protocol, a         *)
(* response goes on to body.into_memory().await                            *)
BuilderSent(t) ==
    /\ task[t].kind = "Await"
    /\ task[t].pc = "send"
    /\ \E o \in AwaitOutcomes :
          task' = SetTask(t,
              IF o.kind = "err"
              THEN [task[t] EXCEPT !.pc = "done", !.got = <<o>>, !.ret = Protocol(o.err)]
              ELSE [task[t] EXCEPT !.pc = "into_memory", !.got = <<o>>, !.res = o.res])
    /\ UNCHANGED <<pipelineVars, storeVars, oauthVars>>

(* body.into_memory().await: the stream is read to its end, or fails *)
BuilderIntoMemory(t) ==
    /\ task[t].kind = "Await"
    /\ task[t].pc = "into_memory"
    /\ \E read \in BOOLEAN :
          task' = SetTask(t,
              IF read
              THEN [task[t] EXCEPT !.pc = "done", !.ret = into_future(task[t].res)]
              ELSE [task[t] EXCEPT !.pc = "done", !.ret = Protocol("ConnectionError")])
    /\ UNCHANGED <<pipelineVars, storeVars, oauthVars>>

AwaitNext == \E t \in Tasks :
                \/ BuilderAwait(t)
                \/ BuilderSent(t)
                \/ BuilderIntoMemory(t)

AwaitSpec == RecInit /\ [][AwaitNext]_vars

----------------------------------------------------------------------------
(* TotalTimeout::handle: tokio::time::timeout(self.timeout, next.run(..)) *)

(* The timeouts given to TotalTimeout::new, in ticks of the clock *)
MaxTimeout == 2

TimeoutOutcomes == OAuthOutcomes

TimedOut == Err("TimedOut")

TotalTimeout_flatten(completed, o) ==
    IF completed /\ o.kind = "ok" THEN o ELSE TimedOut

(* .await.map_err(|_| IoError(TimedOut))?: the value of next.run when it   *)
(* completed, the TimedOut error when the timer won                        *)
TotalTimeout_result(completed, o) ==
    IF completed THEN o ELSE TimedOut

(* handle() creates the one next.run future and the timer *)
TimeoutHandle(t, timeout) ==
    /\ Arrives(t)
    /\ task' = SetTask(t, [IdleTask EXCEPT !.kind = "TotalTimeout", !.pc = "timeout",
                                           !.timeout = timeout, !.calls = 1])
    /\ UNCHANGED <<pipelineVars, storeVars, oauthVars>>

(* The clock advances while next.run is pending and the deadline is ahead *)
TimeoutTick(t) ==
    /\ task[t].kind = "TotalTimeout"
    /\ task[t].pc = "timeout"
    /\ task[t].elapsed < task[t].timeout
    /\ task' = SetTask(t, [task[t] EXCEPT !.elapsed = @ + 1])
    /\ UNCHANGED <<pipelineVars, storeVars, oauthVars>>

(* A poll finds next.run completed: the future is polled before the timer *)
TimeoutCompleted(t) ==
    /\ task[t].kind = "TotalTimeout"
    /\ task[t].pc = "timeout"
    /\ \E o \in TimeoutOutcomes :
          task' = SetTask(t, [task[t] EXCEPT !.pc = "done", !.got = <<o>>,
                                             !.ret = TotalTimeout_result(TRUE, o)])
    /\ UNCHANGED <<pipelineVars, storeVars, oauthVars>>

(* A poll at the deadline finds next.run pending: the future is dropped *)
TimeoutElapsed(t) ==
    /\ task[t].kind = "TotalTimeout"
    /\ task[t].pc = "timeout"
    /\ task[t].elapsed = task[t].timeout
    /\ task' = SetTask(t, [task[t] EXCEPT !.pc = "done",
                                          !.ret = TotalTimeout_result(FALSE, NoVal)])
    /\ UNCHANGED <<pipelineVars, storeVars, oauthVars>>

TimeoutNext == \E t \in Tasks :
                  \/ \E timeout \in 0..MaxTimeout : TimeoutHandle(t, timeout)
                  \/ TimeoutTick(t)
                  \/ TimeoutCompleted(t)
                  \/ TimeoutElapsed(t)

TimeoutSpec == RecInit /\ [][TimeoutNext]_vars

----------------------------------------------------------------------------
(* Next::run with no middleware left: the transport terminator *)

NameContentLength == <<"content", "-", "length">>

(* A header value with a byte above 127; HeaderValue::to_str fails on it *)
OpaqueValues == {"caf<E9>"}

HeaderValue_to_str_ok(v) == v \notin OpaqueValues

(* serde_json::to_string of the values the model uses, as bytes *)
RECURSIVE JoinBytes(_, _)
JoinBytes(parts, i) ==
    IF i > Len(parts) THEN <<>>
    ELSE (IF i > 1 THEN <<44>> ELSE <<>>) \o parts[i] \o JoinBytes(parts, i + 1)

RECURSIVE KeyBytes(_)
KeyBytes(k) == IF k = <<>> THEN <<>> ELSE Utf8(Head(k)) \o KeyBytes(Tail(k))

RECURSIVE serde_json_to_string(_)
serde_json_to_string(v) ==
    CASE v.t = "null" -> <<110, 117, 108, 108>>
      [] v.t = "string" -> <<34>> \o Utf8(v.s) \o <<34>>
      [] v.t = "number" -> <<48 + v.n>>
      [] v.t = "array" ->
            <<91>> \o JoinBytes([i \in 1..Len(v.kids) |->
                                    serde_json_to_string(v.kids[i].v)], 1) \o <<93>>
      [] OTHER ->
            <<123>> \o JoinBytes([i \in 1..Len(v.kids) |->
                                    <<34>> \o KeyBytes(v.kids[i].k) \o <<34, 58>>
                                    \o serde_json_to_string(v.kids[i].v)], 1) \o <<125>>

(* The bytes of the materialized body *)
body_bytes(body) ==
    CASE body.variant = "Empty" -> <<>>
      [] body.variant = "Bytes" -> body.bytes
      [] body.variant = "Text" -> Utf8(body.text)
      [] OTHER -> serde_json_to_string(body.json)

(* parts.headers.entry(CONTENT_LENGTH).or_insert(len.into()) *)
entry_or_insert(headers, name, value) ==
    IF \E h \in headers : h.name = name
    THEN headers
    ELSE headers \cup {Header(name, value)}

(* The hyper request: every header is copied with v.to_str().unwrap(),     *)
(* which panics on a value that is not visible ASCII                       *)
wire_request(req) ==
    LET body == body_bytes(req.body)
        headers == entry_or_insert(req.headers, NameContentLength, ToString(Len(body)))
    IN  IF \A h \in headers : HeaderValue_to_str_ok(h.value)
        THEN Ok([req EXCEPT !.headers = headers, !.body = Body_Bytes(body)])
        ELSE Panic

TerminatorBodies ==
    { Body_Empty, Body_Text("hi"), Body_Text("h&eacute;"), Body_Bytes(<<255>>),
      Body_Json(JString("hi")), Body_Json(JArray(<<JNumber(7), JNull>>)) }

TerminatorHeaders ==
    { {},
      {Header(NameContentLength, "99")},
      {Header(<<"accept">>, "a/b"), Header(<<"accept">>, "c/d")},
      {Header(NameContentLength, "99"), Header(<<"x", "-", "trace">>, "abc")},
      {Header(<<"x", "-", "name">>, "caf<E9>")} }

TerminatorRequests ==
    {InMemoryRequest("POST", RecUri(""), h, b) : h \in TerminatorHeaders,
                                                b \in TerminatorBodies}

(* The request is built and handed to the client, or building it panics *)
TerminatorRun(t, req) ==
    /\ Arrives(t)
    /\ LET wire == wire_request(req)
           tk == [IdleTask EXCEPT !.kind = "Terminator", !.req = req]
       IN  task' = SetTask(t,
              IF wire.kind = "ok"
              THEN [tk EXCEPT !.pc = "request", !.calls = 1, !.sent = <<wire.res>>]
              ELSE [tk EXCEPT !.pc = "done", !.ret = wire])
    /\ UNCHANGED <<pipelineVars, storeVars, oauthVars>>

(* self.client.inner.request(request).await? *)
TerminatorResponse(t) ==
    /\ task[t].kind = "Terminator"
    /\ task[t].pc = "request"
    /\ \E o \in OAuthOutcomes :
          task' = SetTask(t, [task[t] EXCEPT !.pc = "done", !.ret = o])
    /\ UNCHANGED <<pipelineVars, storeVars, oauthVars>>

TerminatorNext == \E t \in Tasks :
                     \/ \E req \in TerminatorRequests : TerminatorRun(t, req)
                     \/ TerminatorResponse(t)

TerminatorSpec == RecInit /\ [][TerminatorNext]_vars

----------------------------------------------------------------------------
(* Multipart forms.  A text is a sequence of tokens; the line break, the   *)
(* separators and the boundary are tokens of their own.                    *)

CRLF == "<CRLF>"

(* The first position of sep in text, 0 when there is none *)
find(text, sep) ==
    LET at == {i \in 1..(Len(text) - Len(sep) + 1) :
                  SubSeq(text, i, i + Len(sep) - 1) = sep}
    IN  IF at = {} THEN 0 ELSE CHOOSE i \in at : \A j \in at : i <= j

(* str::split_once *)
split_once(text, sep) ==
    LET i == find(text, sep)
    IN  IF i = 0
        THEN [found |-> FALSE, head |-> <<>>, rest |-> <<>>]
        ELSE [found |-> TRUE, head |-> SubSeq(text, 1, i - 1),
              rest |-> SubSeq(text, i + Len(sep), Len(text))]

(* str::split *)
RECURSIVE split(_, _)
split(text, sep) ==
    LET s == split_once(text, sep)
    IN  IF s.found THEN <<s.head>> \o split(s.rest, sep) ELSE <<text>>

starts_with(text, prefix) ==
    /\ Len(text) >= Len(prefix)
    /\ SubSeq(text, 1, Len(prefix)) = prefix

(* HeaderName::from_str and HeaderValue::from_str accept one token that    *)
(* holds no blank or control character                                     *)
HeaderName_from_str_ok(name) == Len(name) = 1 /\ name[1] \notin {CRLF, " ", ": ", "--"}

HeaderValue_parse_ok(value) == CRLF \notin {value[i] : i \in 1..Len(value)}

(* HeaderMap::insert on a map kept in insertion order *)
PartHeaders_insert(headers, name, value) ==
    IF \E i \in 1..Len(headers) : headers[i].name = name
    THEN [i \in 1..Len(headers) |->
            IF headers[i].name = name THEN Header(name, value) ELSE headers[i]]
    ELSE Append(headers, Header(name, value))

(* parse_headers: lines of the form name: value, up to the first line that *)
(* is not of that form; None when a name or a value is not valid           *)
RECURSIVE parse_headers_from(_, _)
parse_headers_from(headers, text) ==
    LET line == split_once(text, <<CRLF>>)
        kv == split_once(line.head, <<": ">>)
    IN  IF ~line.found \/ ~kv.found
        THEN [some |-> TRUE, headers |-> headers, text |-> text]
        ELSE IF ~HeaderName_from_str_ok(kv.head) \/ ~HeaderValue_parse_ok(kv.rest)
        THEN [some |-> FALSE, headers |-> <<>>, text |-> <<>>]
        ELSE parse_headers_from(
                PartHeaders_insert(headers, to_ascii_lowercase(kv.head[1]), kv.rest),
                line.rest)

parse_headers(text) == parse_headers_from(<<>>, text)

(* StatusCode::from_str: three digits, the first not 0 *)
StatusCode_from_str_ok(status) ==
    status \in {<<"200">>, <<"204">>, <<"404">>}

NoPartResponse == [some |-> FALSE, status |-> <<>>, headers |-> <<>>, body |-> <<>>]

(* parse_response: a status line, headers, and the rest as a Text body *)
parse_response(text) ==
    LET line == split_once(text, <<CRLF>>)
        words == split(line.head, <<" ">>)
        hs == parse_headers(line.rest)
    IN  IF ~line.found \/ Len(words) < 3 THEN NoPartResponse
        ELSE IF ~StatusCode_from_str_ok(words[2]) THEN NoPartResponse
        ELSE IF ~hs.some THEN NoPartResponse
        ELSE [some |-> TRUE, status |-> words[2], headers |-> hs.headers,
              body |-> hs.text]

Part(headers, body) == [headers |-> headers, body |-> body]

Form(content_type, boundary, parts) ==
    [content_type |-> content_type, boundary |-> boundary, parts |-> parts]

full_content_type(form) == <<form.content_type, "; boundary=", form.boundary>>

write_terminate(boundary) == <<"--", boundary, "--", CRLF>>

write_boundary(boundary) == <<"--", boundary, CRLF>>

RECURSIVE write_header_lines(_, _)
write_header_lines(headers, i) ==
    IF i > Len(headers) THEN <<>>
    ELSE <<headers[i].name, ": ">> \o headers[i].value \o <<CRLF>>
         \o write_header_lines(headers, i + 1)

write_headers(headers) == write_header_lines(headers, 1) \o <<CRLF>>

(* From<Form<T>> for Vec<u8>, with a line break after every body *)
RECURSIVE Form_write_parts_always(_, _)
Form_write_parts_always(form, i) ==
    IF i > Len(form.parts) THEN <<>>
    ELSE write_boundary(form.boundary) \o write_headers(form.parts[i].headers)
         \o form.parts[i].body \o <<CRLF>>
         \o Form_write_parts_always(form, i + 1)

(* From<Form<T>> for Vec<u8>: the line break follows a body that wrote     *)
(* at least one byte                                                       *)
RECURSIVE Form_write_parts(_, _)
Form_write_parts(form, i) ==
    IF i > Len(form.parts) THEN <<>>
    ELSE write_boundary(form.boundary) \o write_headers(form.parts[i].headers)
         \o form.parts[i].body
         \o (IF Len(form.parts[i].body) > 0 THEN <<CRLF>> ELSE <<>>)
         \o Form_write_parts(form, i + 1)

Form_into_bytes(form) == Form_write_parts(form, 1) \o write_terminate(form.boundary)

NoForm == [some |-> FALSE, panic |-> FALSE, form |-> Form("", "", <<>>)]

SomeForm(form) == [some |-> TRUE, panic |-> FALSE, form |-> form]

FormPanic == [some |-> FALSE, panic |-> TRUE, form |-> Form("", "", <<>>)]

(* The loop of Form::from_response over the pieces between boundaries.     *)
(* A piece that does not start with a line break fails a debug assertion.  *)
RECURSIVE from_response_parts(_, _, _)
from_response_parts(form, splits, i) ==
    IF i > Len(splits) \/ starts_with(splits[i], <<"--", CRLF>>)
    THEN SomeForm(form)
    ELSE IF ~starts_with(splits[i], <<CRLF>>) THEN FormPanic
    ELSE LET hs == parse_headers(Tail(splits[i]))
         IN  IF ~hs.some THEN NoForm
             ELSE IF ~starts_with(hs.text, <<CRLF>>) THEN FormPanic
             ELSE LET body == parse_response(Tail(hs.text))
                  IN  IF ~body.some THEN NoForm
                      ELSE from_response_parts(
                              [form EXCEPT !.parts = Append(@, Part(hs.headers, body))],
                              splits, i + 1)

(* Form::from_response on the Content-Type value and the text of a response *)
from_response(content_type, text) ==
    LET ct == split_once(content_type, <<"; boundary=">>)
    IN  IF content_type = <<>> \/ ~ct.found \/ Len(ct.head) # 1 \/ Len(ct.rest) # 1
        THEN NoForm
        ELSE from_response_parts(Form(ct.head[1], ct.rest[1], <<>>),
                                 Tail(split(text, <<"--", ct.rest[1]>>)), 1)

PartBodies ==
    { <<>>,
      <<"hello">>,
      <<"HTTP/1.1", " ", "204", " ", "No Content", CRLF>>,
      <<"HTTP/1.1", " ", "200", " ", "OK", CRLF,
        "content-type", ": ", "text/plain", CRLF, CRLF, "hi">> }

PartHeaderMaps ==
    { <<>>,
      <<Header("content-type", <<"application/http">>)>>,
      <<Header("content-type", <<"text/plain">>), Header("content-id", <<"a">>)>> }

Parts == {Part(h, b) : h \in PartHeaderMaps, b \in PartBodies}

Forms ==
    {Form("multipart/mixed", "zzz", <<>>)}
    \cup {Form("multipart/mixed", "zzz", <<p>>) : p \in Parts}
    \cup {Form("multipart/mixed", "zzz", <<p, p>>) : p \in Parts}

(* A form is written to bytes, and a response that carries those bytes     *)
(* under the form's full content type is parsed by Form::from_response     *)
MultipartRun(t, form) ==
    /\ Arrives(t)
    /\ LET bytes == Form_into_bytes(form)
       IN  task' = SetTask(t, [IdleTask EXCEPT
                      !.kind = "Multipart", !.pc = "done",
                      !.cb = <<form>>,
                      !.sent = <<bytes>>,
                      !.got = <<from_response(full_content_type(form), bytes)>>])
    /\ UNCHANGED <<pipelineVars, storeVars, oauthVars>>

MultipartNext == \E t \in Tasks : \E form \in Forms : MultipartRun(t, form)

MultipartSpec == RecInit /\ [][MultipartNext]_vars

----------------------------------------------------------------------------
(* Retry::handle directly above the transport, one request.  A Retry holds *)
(* no state that its handle changes, so requests do not affect each other. *)

RetryOutcomes ==
    { Err("ConnectionError"),
      Ok(Response(200, NoLocation, NoHint)),
      Ok(Response(503, NoLocation, NoHint)),
      Ok(Response(503, NoLocation, HintBad)),
      Ok(Response(429, NoLocation, HintSecs(1))),
      Ok(Response(429, NoLocation, HintSecs(0))),
      Ok(Response(503, NoLocation, HintDate(3))),
      Ok(Response(429, NoLocation, HintDate(-5))) }

(* let mut i = 0; let mut delay = Duration::from_millis(100) *)
RetryHandle(t, mw, req) ==
    /\ task[t].pc = "idle"
    /\ task' = SetTask(t, [IdleTask EXCEPT !.kind = "Retry", !.pc = "loop",
                                           !.req = req,
                                           !.cfg = mw.cfg, !.i = 0,
                                           !.delay = InitialDelay])
    /\ UNCHANGED <<pipelineVars, storeVars, oauthVars>>

(* i += 1, then TooManyRetries or the call of next.run *)
RetryTaskLoop(t) ==
    /\ task[t].kind = "Retry"
    /\ task[t].pc = "loop"
    /\ LET i == task[t].i + 1 IN
       task' = SetTask(t,
          IF RetryExhausted(task[t].cfg, i)
          THEN [task[t] EXCEPT !.i = i, !.pc = "done", !.ret = Err("TooManyRetries")]
          ELSE [task[t] EXCEPT !.i = i, !.pc = "await", !.calls = @ + 1])
    /\ UNCHANGED <<pipelineVars, storeVars, oauthVars>>

(* What Retry::handle does with the value v of next.run: an error or a     *)
(* response that is not retryable is returned, otherwise the delay is      *)
(* computed and the sleep begins                                           *)
RetryOnResult(tk, v) ==
    IF (v.kind = "err" /\ RetryOnError(v.err) = "return")
       \/ (v.kind = "ok" /\ ~ShouldRetry(tk.cfg, v.res))
    THEN [tk EXCEPT !.pc = "done", !.ret = v]
    ELSE [tk EXCEPT !.pc = "sleep",
                    !.delay = IF v.kind = "ok"
                              THEN RetryDelay(tk.cfg, @, v.res) ELSE @]

(* Variant: after the last allowed dispatch Retry gives up without a sleep. *)
RetryTaskAwaitNoLastSleep(t) ==
    /\ task[t].kind = "Retry"
    /\ task[t].pc = "await"
    /\ \E v \in RetryOutcomes :
          LET tk == [task[t] EXCEPT !.got = Append(@, v)] IN
          task' = SetTask(t,
             IF (v.kind = "err" /\ RetryOnError(v.err) = "return")
                \/ (v.kind = "ok" /\ ~ShouldRetry(tk.cfg, v.res))
             THEN [tk EXCEPT !.pc = "done", !.ret = v]
             ELSE IF tk.i >= tk.cfg.max_retries
             THEN [tk EXCEPT !.pc = "done", !.ret = Err("TooManyRetries")]
             ELSE [tk EXCEPT !.pc = "sleep",
                             !.delay = IF v.kind = "ok"
                                       THEN RetryDelay(tk.cfg, @, v.res) ELSE @])
    /\ UNCHANGED <<pipelineVars, storeVars, oauthVars>>

(* next.run, here the transport, returned *)
RetryTaskAwait(t) ==
    /\ task[t].kind = "Retry"
    /\ task[t].pc = "await"
    /\ \E v \in RetryOutcomes :
          task' = SetTask(t, RetryOnResult([task[t] EXCEPT !.got = Append(@, v)], v))
    /\ UNCHANGED <<pipelineVars, storeVars, oauthVars>>

(* tokio::time::sleep(delay) is over *)
RetryTaskSleep(t) ==
    /\ task[t].kind = "Retry"
    /\ task[t].pc = "sleep"
    /\ task' = SetTask(t, [task[t] EXCEPT !.pc = "loop",
                                          !.slept = Append(@, task[t].delay)])
    /\ UNCHANGED <<pipelineVars, storeVars, oauthVars>>

RetryTaskNext ==
    \/ \E mw \in RetryInstances : RetryHandle(1, mw, RequestGet)
    \/ RetryTaskLoop(1)
    \/ RetryTaskAwait(1)
    \/ RetryTaskSleep(1)

RetrySpec == RecInit /\ [][RetryTaskNext]_vars

----------------------------------------------------------------------------
(* The recorder across clear and restarts, one request of every body kind *)

RequestPostBytes ==
    InMemoryRequest("POST", RecUri(""), {}, Body_Bytes(<<255>>))

RequestPostPlain ==
    InMemoryRequest("POST", RecUri(""), {},
        Body_Json(JObject(<<JMember(<<"email">>, JString("a"))>>)))

ReloadRequests == {RequestGet, RequestPostText, RequestPostBytes, RequestPostPlain}

(* RequestRecorder::clear: the map is emptied, the directory is not touched *)
Clear ==
    /\ \A t \in Tasks : task[t].pc \in {"idle", "done"}
    /\ requests # <<>>
    /\ RwLock_can_write(lock)
    /\ requests' = <<>>
    /\ UNCHANGED <<pipelineVars, files, lock, oauthVars, task>>

ReloadStart == \E t \in Tasks, req \in ReloadRequests :
                  RecorderHandle(t, "RecordOrRequest", req)

ReloadNext == ReloadStart \/ RecorderStep \/ Restart \/ Clear

ReloadSpec == RecInit /\ [][ReloadNext]_vars

----------------------------------------------------------------------------
(* Retry installed before a Recorder: one request in flight.  The handle   *)
(* of Retry runs as task 1; each of its calls of next.run is one handle of *)
(* the Recorder, which runs as task 2 and calls the transport.             *)

NameRetryAfter == <<"retry", "-", "after">>

(* res.headers().get(RETRY_AFTER) and the two parsers of calc_delay *)
RetryAfterOf(headers) ==
    IF \A h \in headers : h.name # NameRetryAfter THEN NoHint
    ELSE LET v == (CHOOSE h \in headers : h.name = NameRetryAfter).value
         IN  IF v = "1" THEN HintSecs(1) ELSE HintBad

(* The response as Retry::handle reads it: status and Retry-After *)
AsRetryResponse(v) ==
    IF v.kind = "ok"
    THEN Ok(Response(v.res.status, NoLocation, RetryAfterOf(v.res.headers)))
    ELSE v

(* What the transport and the read of the response body give *)
StackOutcomes ==
    { Err("ConnectionError"),
      Ok(InMemoryResponse(200, {}, Body_Text("ok"))),
      Ok(InMemoryResponse(503, {}, Body_Empty)),
      Ok(InMemoryResponse(429, {Header(NameRetryAfter, "1")}, Body_Empty)) }

(* next.run(request.clone()) of Retry enters the handle of the Recorder *)
RetryCallsRecorder ==
    /\ task[1].kind = "Retry"
    /\ task[1].pc = "await"
    /\ RecorderHandle(2, "RecordOrRequest", task[1].req)

(* The handle of the Recorder has returned to Retry: with a recorded       *)
(* response and no dispatch (hit), or after one dispatch                   *)
RecorderReturnsToRetry ==
    /\ task[1].kind = "Retry"
    /\ task[1].pc = "await"
    /\ task[2].kind = "Recorder"
    /\ task[2].pc = "done"
    /\ LET v == task[2].ret
           tk == [task[1] EXCEPT !.got = Append(@, v),
                                 !.hits = Append(@, task[2].hit),
                                 !.sent = IF task[2].calls = 1
                                          THEN Append(@, task[2].req) ELSE @]
           r == RetryOnResult(tk, AsRetryResponse(v))
       IN  task' = [task EXCEPT ![1] = IF r.pc = "done" THEN [r EXCEPT !.ret = v] ELSE r,
                                ![2] = IdleTask]
    /\ UNCHANGED <<pipelineVars, storeVars, oauthVars>>

RetryRecorderNext ==
    \/ \E mw \in RetryInstances, req \in {RequestGet, RequestPostText} :
          RetryHandle(1, mw, req)
    \/ RetryTaskLoop(1)
    \/ RetryCallsRecorder
    \/ \E o \in StackOutcomes : RecorderAwaitWith(2, o)
    \/ RecordResponseInsert(2)
    \/ RecordResponseWrite(2)
    \/ RecorderReturnsToRetry
    \/ RetryTaskSleep(1)

RetryRecorderSpec == RecInit /\ [][RetryRecorderNext]_vars

----------------------------------------------------------------------------
(* A Recorder installed after OAuth2: one request in flight.  The handle   *)
(* of OAuth2 runs as task 1; each of its calls of next.run is one handle   *)
(* of the Recorder, which runs as task 2 and calls the transport.          *)

(* The request of the pending next.run of OAuth2: the last one it built *)
OAuth2Pending == task[1].sent[Len(task[1].sent)]

OAuth2CallsRecorder ==
    /\ task[1].kind = "OAuth2"
    /\ task[1].pc \in {"next_run", "refresh", "rerun"}
    /\ RecorderHandle(2, "RecordOrRequest", OAuth2Pending)

(* The transport answers the request the Recorder passed on *)
RecorderBelowOAuth2Await ==
    \E o \in (IF task[2].req = RefreshRequest THEN RefreshOutcomes ELSE OAuthOutcomes) :
        RecorderAwaitWith(2, o)

(* The handle of the Recorder has returned to OAuth2 *)
RecorderReturnsToOAuth2 ==
    /\ task[1].kind = "OAuth2"
    /\ task[1].pc \in {"next_run", "refresh", "rerun"}
    /\ task[2].kind = "Recorder"
    /\ task[2].pc = "done"
    /\ LET v == task[2].ret
           tk == [task[1] EXCEPT !.hits = Append(@, task[2].hit)]
       IN  task' = [task EXCEPT
                       ![1] = CASE tk.pc = "next_run" -> OAuth2OnFirst(tk, v)
                                [] tk.pc = "refresh" -> OAuth2OnRefresh(tk, v)
                                [] OTHER -> OAuth2OnRerun(tk, v),
                       ![2] = IdleTask]
    /\ UNCHANGED <<pipelineVars, storeVars, oauthVars>>

OAuth2RecorderNext ==
    \/ \E req \in OAuthRequests : OAuth2Handle(1, req)
    \/ OAuth2CallsRecorder
    \/ RecorderBelowOAuth2Await
    \/ RecordResponseInsert(2)
    \/ RecordResponseWrite(2)
    \/ RecorderReturnsToOAuth2
    \/ OAuth2JsonError(1)
    \/ OAuth2Store(1)


----------------------------------------------------------------------------
(* InMemoryRequest::sanitize on its own *)

SanitizeNames ==
    { <<"authorization">>, <<"cookie">>, <<"set", "-", "cookie">>, <<"password">>,
      <<"x", "-", "api", "-", "key">>, <<"api", "_", "key">>, <<"pkey">>,
      <<"x", "-", "secret", "-", "id">>, <<"session">>,
      <<"x", "-", "token">>, <<"access", "_", "token">>,
      <<"api", ".", "key">>, <<"monkey">>, <<"accept">> }

SanitizeHeaders ==
    {{Header(n, "v1")} : n \in SanitizeNames}
    \cup {{Header(<<"cookie">>, "v1"), Header(<<"accept">>, "a/b")}}

SanitizeRequests ==
    {InMemoryRequest("GET", RecUri(""), h, Body_Empty) : h \in SanitizeHeaders}

SanitizeRun(t, req) ==
    /\ Arrives(t)
    /\ task' = SetTask(t, [IdleTask EXCEPT !.kind = "Sanitize", !.pc = "done",
                                           !.req = req,
                                           !.sent = <<InMemoryRequest_sanitize(req)>>])
    /\ UNCHANGED <<pipelineVars, storeVars, oauthVars>>

SanitizeNext == \E t \in Tasks : \E req \in SanitizeRequests : SanitizeRun(t, req)

SanitizeSpec == RecInit /\ [][SanitizeNext]_vars

(* OAuth2 alone, with either token type *)
OAuth2Init ==
    /\ phase = "off"
    /\ middlewares = <<>>
    /\ installed = <<>>
    /\ request = NoRequest
    /\ stack = [p \in Pipelines |-> <<>>]
    /\ call = [p \in Pipelines |-> NoCall]
    /\ retval = [p \in Pipelines |-> NoVal]
    /\ result = [p \in Pipelines |-> NoVal]
    /\ lastReq = [p \in Pipelines |-> NoRequest]
    /\ behind = 0
    /\ lastResp = NoVal
    /\ turn = 1
    /\ requests = <<>>
    /\ files = <<>>
    /\ lock = RwLock_new
    /\ access_token = "old"
    /\ token_lock = RwLock_new
    /\ token_type \in TokenTypes
    /\ refresh_token = "r0"
    /\ task = [t \in Tasks |-> IdleTask]

OAuth2Next == OAuth2Step

OAuth2Spec == OAuth2Init /\ [][OAuth2Next]_vars

OAuth2RecorderSpec == OAuth2Init /\ [][OAuth2RecorderNext]_vars

(* One caller's request and the Bearer type; downstream answers every     *)
(* dispatch and the task is polled again                                   *)
OAuth2FairNext == \E t \in Tasks :
                    \/ OAuth2Handle(t, OAuthRequest)
                    \/ OAuth2First(t)
                    \/ OAuth2Refresh(t)
                    \/ OAuth2JsonError(t)
                    \/ OAuth2Store(t)
                    \/ OAuth2Rerun(t)

OAuth2FairSpec == RecInit /\ [][OAuth2FairNext]_vars /\ WF_vars(OAuth2FairNext)

----------------------------------------------------------------------------
(* Properties *)

Frames(p) == {stack[p][k] : k \in 1..Len(stack[p])}

RetryFrames == {f \in Frames(1) : f.kind = "Retry"}

FollowFrames == {f \in Frames(1) : f.kind = "Follow"}

(* C1: the handles of a request are entered in list order and return in    *)
(* reverse order: the k-th active handle is that of the k-th installed     *)
(* middleware, every handle but the innermost awaits its next.run, the     *)
(* cursor of a pending Next::run holds exactly the middlewares after the   *)
(* active ones, so the transport is dispatched only with all of m1..mn     *)
(* entered; a middleware added later has a higher position, closer to the  *)
(* transport.                                                              *)
C1_PipelineOrder ==
    /\ \A k \in 1..Len(stack[1]) :
          /\ stack[1][k].idx = k
          /\ stack[1][k].kind = installed[k].kind
          /\ stack[1][k].cfg = installed[k].cfg
          /\ k < Len(stack[1]) => stack[1][k].pc = "await"
    /\ call[1].active =>
          /\ call[1].mws = [j \in 1..(Len(installed) - Len(stack[1])) |-> Len(stack[1]) + j]
          /\ call[1].mws = <<>> => Len(stack[1]) = Len(installed)

C1_Witness ==
    /\ Len(stack[1]) = 2
    /\ stack[1][1].kind = "Retry"
    /\ stack[1][2].kind = "Follow"
    /\ stack[1][2].pc = "done"
    /\ stack[1][2].calls > 0

(* C2: a pipeline with default-passthrough middlewares dispatches the same *)
(* wire requests, as many of them, and returns the same result as the      *)
(* pipeline without them, for the same server outcomes.                    *)
C2_PassUnobservable ==
    result[2] # Absent =>
        /\ behind = 0 => lastReq[1] = lastReq[2]
        /\ phase = "done" => behind = 0 /\ result[1] = result[2]

C2_Witness ==
    /\ phase = "done"
    /\ result[2] # Absent
    /\ middlewares = <<FollowMw, PassMw>>
    /\ result[1].kind = "ok"
    /\ lastReq[1].uri.path = "/3"
    /\ lastReq[1].method = "POST"

(* C3: a Retry whose every attempt was answered with a status in           *)
(* retry_codes returns TooManyRetries after exactly max_retries calls of   *)
(* next.run, and never calls it more often than that.                      *)
C3_RetryExhaustion ==
    \A f \in RetryFrames :
        /\ f.calls <= f.cfg.max_retries
        /\ f.pc = "done" /\ f.nretry = f.calls =>
              /\ retval[1] = Err("TooManyRetries")
              /\ f.calls = f.cfg.max_retries

C3_Witness ==
    \E f \in RetryFrames :
        /\ f.pc = "done"
        /\ f.cfg.max_retries = 2
        /\ f.nretry = 2
        /\ f.calls = 2
        /\ retval[1] = Err("TooManyRetries")

C5_RetryPassesError ==
    \A f \in RetryFrames :
        /\ f.pc = "done" /\ f.got.kind = "err" =>
              /\ retval[1] = f.got
              /\ f.calls = f.nretry + 1
              /\ f.sleeps = f.nretry
        /\ f.pc \in {"sleep", "loop"} => f.calls = f.nretry

C5_Witness ==
    \E f \in RetryFrames :
        /\ f.pc = "done"
        /\ f.got = Err("ConnectionError")
        /\ f.nretry = 1
        /\ f.calls = 2
        /\ retval[1] = f.got

(* C6: when the first retryable response carries no usable Retry-After,   *)
(* the delay Retry sleeps starts from the configured backoff_delay (it is  *)
(* backoff_delay or its double).                                           *)
C6_BackoffDelayUsed ==
    \A f \in RetryFrames :
        f.pc = "sleep" /\ f.nretry = 1 /\ ~f.hinted =>
            f.delay \in {f.cfg.backoff_delay, 2 * f.cfg.backoff_delay}

(* C7: Follow calls next.run at most 11 times; it returns TooManyRedirects *)
(* exactly when the response to its 11th call is a 3xx; a response that is *)
(* not a 3xx is returned as it is and is the first such response; and the  *)
(* request ends.                                                           *)
C7_FollowSafety ==
    \A f \in FollowFrames :
        /\ f.calls <= 11
        /\ f.pc = "done" /\ f.got.kind = "ok" =>
              /\ (retval[1] = Err("TooManyRedirects"))
                    <=> (f.calls = 11 /\ is_redirection(f.got.res.status))
              /\ ~is_redirection(f.got.res.status) =>
                    retval[1] = f.got /\ f.calls = f.nredir + 1
              /\ is_redirection(f.got.res.status) => f.nredir = f.calls
        /\ f.pc = "await" => f.nredir = f.calls - 1

C8_RelativeToPrevious ==
    [][ FollowRedirect(1) =>
            call'[1].req.uri = fix_url(Top(1).sent_uri, retval[1].res.location.uri) ]_vars

(* C9: a 3xx response without a Location header ends the request with an  *)
(* error value; the request never ends in a panic.                         *)
C9_NoLocationIsError == result[1] # Panic

(* C10: every request Follow passes to next.run has the method, headers,   *)
(* version and body of the request Follow received.                        *)
C10_FollowKeepsRequest ==
    call[1].active /\ stack[1] # <<>> /\ Top(1).kind = "Follow" =>
        /\ call[1].req.method = Top(1).req.method
        /\ call[1].req.headers = Top(1).req.headers
        /\ call[1].req.version = Top(1).req.version
        /\ call[1].req.body = Top(1).req.body

C10_Witness ==
    /\ call[1].active
    /\ stack[1] # <<>>
    /\ Top(1).kind = "Follow"
    /\ Top(1).calls = 2
    /\ Top(1).req.method = "POST"
    /\ call[1].req.uri # Top(1).req.uri
    /\ call[1].req.method = "POST"
    /\ call[1].req.body = TextBody("hi")

----------------------------------------------------------------------------
(* Properties of the Recorder *)

(* The positions of a map whose key equals the request *)
Recorded(map, req) == {i \in 1..Len(map) : HashableRequest_eq(map[i].key, req)}

(* Task t enters Recorder::handle in this step, in the given mode *)
Enters(t, mode) ==
    /\ task[t].pc = "idle"
    /\ task'[t].kind = "Recorder"
    /\ task'[t].mode = mode

InMode(mode) == {t \in Tasks : task[t].kind = "Recorder" /\ task[t].mode = mode}

C11_Handled(t) ==
    Enters(t, "ForceNoRequests") =>
        /\ task'[t].pc = "done"
        /\ task'[t].calls = 0
        /\ requests' = requests
        /\ files' = files
        /\ IF Recorded(requests, task'[t].req) # {}
           THEN \E i \in Recorded(requests, task'[t].req) :
                    task'[t].ret = Ok(requests[i].value)
           ELSE task'[t].ret = Err("NotFound")

(* C11: in ForceNoRequests mode the recorder never calls next.run: the     *)
(* request is answered in the step of its lookup, with the recorded        *)
(* response when the map holds its fingerprint and with the not-found      *)
(* error otherwise, and the map and the recording directory stay as they   *)
(* were.                                                                   *)
C11_ForceNoRequests ==
    /\ [](\A t \in InMode("ForceNoRequests") :
              task[t].calls = 0 /\ task[t].pc = "done")
    /\ [][\A t \in Tasks : C11_Handled(t)]_vars

C11_Witness ==
    \E t \in InMode("ForceNoRequests") :
        task[t].pc = "done" /\ task[t].hit /\ task[t].ret.kind = "ok"

C12_Lookup(t) ==
    Enters(t, "RecordOrRequest") =>
        IF Recorded(requests, task'[t].req) # {}
        THEN /\ task'[t].pc = "done"
             /\ task'[t].calls = 0
             /\ \E i \in Recorded(requests, task'[t].req) :
                    task'[t].ret = Ok(requests[i].value)
             /\ requests' = requests
             /\ files' = files
        ELSE /\ task'[t].pc = "next_run"
             /\ task'[t].calls = 1

C12_Inserted(t) ==
    (/\ t \in InMode("RecordOrRequest")
     /\ task[t].pc = "record_response"
     /\ task'[t].pc # "record_response") =>
        \E i \in Recorded(requests', sanitize_request(task[t].req)) :
            requests'[i].value = sanitize_response(task[t].res)

C12_Returned(t) ==
    (/\ t \in InMode("RecordOrRequest")
     /\ task[t].pc # "done"
     /\ task'[t].pc = "done"
     /\ task'[t].ret.kind = "ok"
     /\ ~task'[t].hit) =>
        /\ task'[t].calls = 1
        /\ task'[t].ret = Ok(task[t].res)
        /\ Recorded(requests', sanitize_request(task[t].req)) # {}
        /\ RecordingPath(task[t]) \in DOMAIN files'
        /\ files'[RecordingPath(task[t])] =
              RequestResponsePair(sanitize_request(task[t].req),
                                  sanitize_response(task[t].res))

(* C12: in RecordOrRequest mode a lookup hit returns the recorded response *)
(* with no call of next.run and with the map and the directory unchanged;  *)
(* a miss calls next.run once, and a response is returned on a miss only   *)
(* with the sanitized pair inserted in the map and its file written.       *)
C12_RecordOrRequest ==
    /\ [](\A t \in InMode("RecordOrRequest") : task[t].calls <= 1)
    /\ [][\A t \in Tasks : C12_Lookup(t) /\ C12_Inserted(t) /\ C12_Returned(t)]_vars

C12_Witness ==
    \E t \in InMode("RecordOrRequest"), u \in InMode("RecordOrRequest") :
        /\ task[t].pc = "done" /\ ~task[t].hit /\ task[t].ret.kind = "ok"
        /\ task[u].pc = "done" /\ task[u].hit /\ task[u].calls = 0

C13_Entered(t) ==
    Enters(t, "IgnoreRecordings") =>
        task'[t].pc = "next_run" /\ task'[t].calls = 1

C13_Recorded(t) ==
    (/\ t \in InMode("IgnoreRecordings")
     /\ task[t].pc = "record_response"
     /\ task'[t].pc # "record_response") =>
        /\ IndexMap_get(requests', task[t].req) =
              [found |-> TRUE, value |-> sanitize_response(task[t].res)]
        /\ Recorded(requests, task[t].req) # {} => Len(requests') = Len(requests)

(* C13: in IgnoreRecordings mode every request calls next.run exactly      *)
(* once, recorded or not, and after a successful call the map entry for    *)
(* the request's fingerprint holds the sanitized new response, in place of *)
(* an older one and with the map size unchanged when the fingerprint was   *)
(* present.                                                                *)
C13_IgnoreRecordings ==
    /\ [](\A t \in InMode("IgnoreRecordings") : task[t].calls = 1)
    /\ [][\A t \in Tasks : C13_Entered(t) /\ C13_Recorded(t)]_vars

(* C14: sanitizing a request keeps its fingerprint: the sanitized request  *)
(* equals the request as a HashableRequest and has the same hash.          *)
C14_SanitizeKeepsFingerprint ==
    \A t \in Tasks :
        task[t].kind = "Recorder" =>
            /\ HashableRequest_eq(InMemoryRequest_sanitize(task[t].req), task[t].req)
            /\ calculate_hash(InMemoryRequest_sanitize(task[t].req)) =
                  calculate_hash(task[t].req)

(* Task u has recorded, in RecordOrRequest mode, the response to a request *)
(* with the method, URI and body of req                                    *)
HasRecorded(u, req) ==
    /\ u \in InMode("RecordOrRequest")
    /\ task[u].pc = "done"
    /\ ~task[u].hit
    /\ task[u].ret.kind = "ok"
    /\ task[u].req.method = req.method
    /\ task[u].req.uri = req.uri
    /\ InMemoryBody_eq(task[u].req.body, req.body)

C15_Later(t) ==
    (/\ Enters(t, "RecordOrRequest")
     /\ \E u \in Tasks \ {t} : HasRecorded(u, task'[t].req)) =>
        /\ task'[t].pc = "done"
        /\ task'[t].hit
        /\ task'[t].calls = 0

(* C15: once a Recorder in RecordOrRequest mode has recorded the response  *)
(* to a request, a later request with the same method, URI and body,       *)
(* whatever its headers, is answered from the recording with no call       *)
(* downstream.                                                             *)
C15_ReplayAfterRecord == [][\A t \in Tasks : C15_Later(t)]_vars

(* PartialEq of InMemoryRequest: method, URI and body variant with equal   *)
(* contents                                                                *)
InMemoryRequest_eq(a, b) ==
    IF ~(a.method = b.method /\ a.uri = b.uri)
    THEN FALSE
    ELSE InMemoryBody_eq(a.body, b.body)

(* C16: a request written by Serialize and read back by Deserialize equals *)
(* the request, for every body variant.                                    *)
C16_SerializeRoundTrip ==
    \A t \in Tasks :
        task[t].kind = "Recorder" =>
            InMemoryRequest_eq(deserialize_request(serialize_request(task[t].req)),
                               task[t].req)

(* A JSON value in which every sensitive key, at any depth, has the token  *)
(* as its value                                                            *)
RECURSIVE ValueClean(_)
ValueClean(v) ==
    CASE v.t = "object" ->
            \A i \in 1..Len(v.kids) :
                IF should_sanitize(v.kids[i].k)
                THEN v.kids[i].v = JString(SANITIZED_VALUE)
                ELSE ValueClean(v.kids[i].v)
      [] v.t = "array" -> \A i \in 1..Len(v.kids) : ValueClean(v.kids[i].v)
      [] OTHER -> TRUE

ResponseClean(res) ==
    /\ \A h \in res.headers : should_sanitize(h.name) => h.value = SANITIZED_VALUE
    /\ res.body.variant = "Json" => ValueClean(res.body.json)

DocumentClean(doc) ==
    /\ \A n \in DOMAIN doc.headers : should_sanitize(n) => doc.headers[n] = SANITIZED_VALUE
    /\ ValueClean(doc.body)

Inserts(t) ==
    /\ task[t].kind = "Recorder"
    /\ task[t].pc = "record_response"
    /\ task'[t].pc = "fs_write"

(* Task t returns from record_response with its file written *)
Writes(t) ==
    /\ task[t].kind = "Recorder"
    /\ task[t].pc = "fs_write"
    /\ task'[t].ret.kind = "ok"

C18_IndexOnInsert(t) ==
    Inserts(t) =>
        LET key == sanitize_request(task[t].req)
        IN  /\ task'[t].idx + 1 \in Recorded(requests', key)
            /\ IF Recorded(requests, key) = {}
               THEN task'[t].idx = Len(requests)
               ELSE /\ task'[t].idx + 1 \in Recorded(requests, key)
                    /\ Len(requests') = Len(requests)

(* C18, as amended: the index in the file name is the position of the      *)
(* request's entry in the map: the number of entries the map held before   *)
(* the insertion when the fingerprint is new, and the index the entry      *)
(* already had, with the map no longer, when the fingerprint was present.  *)
C18_IndexIsEntryPosition ==
    [][\A t \in Tasks :
          /\ C18_IndexOnInsert(t)
          /\ Writes(t) =>
                \E p \in DOMAIN files' :
                    /\ p.idx = task[t].idx
                    /\ p.method = to_ascii_lowercase(task[t].req.method)
                    /\ files'[p] = RequestResponsePair(sanitize_request(task[t].req),
                                                       sanitize_response(task[t].res))]_vars

(* C18: the index in the file name is the number of entries the map held   *)
(* immediately before the insertion, also when the fingerprint recorded    *)
(* is already in the map.                                                  *)
C18_IndexIsMapSize ==
    [][\A t \in Tasks : Inserts(t) => task'[t].idx = Len(requests)]_vars

C18_Witness ==
    \E t \in Tasks, u \in Tasks :
        /\ t # u
        /\ task[t].pc = "done" /\ ~task[t].hit /\ task[t].ret.kind = "ok"
        /\ task[u].pc = "done" /\ ~task[u].hit /\ task[u].ret.kind = "ok"
        /\ HashableRequest_eq(sanitize_request(task[t].req), sanitize_request(task[u].req))
        /\ task[t].idx = task[u].idx
        /\ task[t].idx + 1 \in Recorded(requests, sanitize_request(task[t].req))

(* Tasks t and u missed concurrently in RecordOrRequest mode with the same *)
(* fingerprint: u had looked up and not yet inserted when t looked up      *)
ConcurrentMisses(t, u) ==
    /\ t # u
    /\ u \in task[t].overlap
    /\ task[t].kind = "Recorder" /\ task[t].mode = "RecordOrRequest" /\ ~task[t].hit
    /\ task[u].kind = "Recorder" /\ task[u].mode = "RecordOrRequest" /\ ~task[u].hit
    /\ calculate_hash(task[t].req) = calculate_hash(task[u].req)
    /\ HashableRequest_eq(task[t].req, task[u].req)

(* Task t has left the block of record_response that holds the write lock *)
HasInserted(t) ==
    \/ task[t].pc = "fs_write"
    \/ task[t].pc = "done" /\ task[t].res # NoRes

(* Task x makes the later of the two inserts of a concurrent pair *)
LaterInsert(x, y) ==
    /\ ConcurrentMisses(x, y) \/ ConcurrentMisses(y, x)
    /\ HasInserted(y)
    /\ Inserts(x)

C20_NoLockAcrossAwait ==
    /\ lock = RwLock_new
    /\ token_lock = RwLock_new
    /\ \A t \in Tasks : ~RwLock_holds(lock, t) /\ ~RwLock_holds(token_lock, t)

C20_Witness ==
    \E t \in Tasks, u \in Tasks :
        /\ task[t].kind = "Recorder" /\ task[t].pc = "fs_write"
        /\ task[u].kind = "OAuth2" /\ task[u].pc = "rerun"
        /\ access_token = "new"

----------------------------------------------------------------------------
(* Properties of OAuth2 *)

OAuth2Tasks == {t \in Tasks : task[t].kind = "OAuth2"}

(* The name and the value of the credential header for a stored token *)
CredentialName == IF token_type = "Bearer" THEN NameAuthorization ELSE NameCustom

CredentialValue(token) == IF token_type = "Bearer" THEN BearerValue(token) ELSE token

Credentials(req) == {h \in req.headers : h.name = CredentialName}

(* Task t dispatches a request downstream in this step *)
Dispatches(t) == Len(task'[t].sent) > Len(task[t].sent)

Dispatched(t) == task'[t].sent[Len(task'[t].sent)]

(* C21: every request OAuth2 dispatches for the caller's request has       *)
(* exactly one value for the credential header, the one built from the     *)
(* access token stored when it is dispatched, whatever values the incoming *)
(* request had for that header.                                            *)
C21_OneCredential ==
    [][\A t \in Tasks :
          Dispatches(t) /\ Dispatched(t) # RefreshRequest =>
              Credentials(Dispatched(t))
                  = {Header(CredentialName, CredentialValue(access_token'))}]_vars

C21_Witness ==
    \E t \in OAuth2Tasks :
        /\ Len(task[t].sent) = 3
        /\ Header(NameCustom, "stale") \in task[t].sent[3].headers
        /\ Credentials(task[t].sent[1]) = {Header(NameAuthorization, "Bearer old")}
        /\ Credentials(task[t].sent[3]) = {Header(NameAuthorization, "Bearer new")}

Unauthorized == Ok(InMemoryResponse(401, {}, Body_Empty))

(* The steps of handle() for task t, by the position they leave *)
FirstResult(t) == task[t].kind = "OAuth2" /\ task[t].pc = "next_run" /\ task'[t].pc # "next_run"

RefreshResult(t) == task[t].kind = "OAuth2" /\ task[t].pc = "refresh" /\ task'[t].pc # "refresh"

Stores(t) == task[t].kind = "OAuth2" /\ task[t].pc = "store" /\ task'[t].pc = "rerun"

RerunResult(t) == task[t].kind = "OAuth2" /\ task[t].pc = "rerun" /\ task'[t].pc # "rerun"

LastGot(t) == task'[t].got[Len(task'[t].got)]

(* The refresh outcome is a transport error or a 4xx/5xx response *)
RefreshFailed(o) ==
    o.kind = "err" \/ (400 <= o.res.status /\ o.res.status < 600)

(* r is q with the credential header set for the token *)
Reauthorized(r, q, token) ==
    /\ r.method = q.method /\ r.uri = q.uri /\ r.body = q.body
    /\ r.headers \ Credentials(r) = q.headers \ Credentials(q)
    /\ Credentials(r) = {Header(CredentialName, CredentialValue(token))}

(* C22: after a 401 and a refresh answered 200 with access_token "new",    *)
(* the dispatches are original(old), refresh, original(new); the store     *)
(* holds "new" at the third dispatch; the callback has run once, with      *)
(* "new" and after the store; the third result is returned; a request      *)
(* that arrives later is sent with "new" and refreshes only on a 401.      *)
C22_RefreshThenRerun ==
    [][\A t \in Tasks :
          /\ Stores(t) =>
                /\ Len(task[t].got) = 2
                /\ task[t].got[1] = Unauthorized
                /\ task[t].got[2] \in {Ok(RefreshResponseOk), Ok(RefreshResponseRotated)}
                /\ access_token' = "new"
                /\ Len(task'[t].cb) = 1
                /\ task'[t].cb[1].access_token = "new"
                /\ task'[t].cb[1].stored = "new"
                /\ Len(task'[t].sent) = 3
                /\ task'[t].sent[1] = task[t].sent[1]
                /\ task'[t].sent[2] = RefreshRequest
                /\ Reauthorized(task'[t].sent[3], task[t].sent[1], "new")
          /\ RerunResult(t) =>
                /\ task'[t].pc = "done"
                /\ task'[t].ret = LastGot(t)
                /\ task'[t].sent = task[t].sent
                /\ task'[t].cb = task[t].cb
                /\ access_token' = access_token
          /\ task[t].pc = "idle" /\ task'[t].kind = "OAuth2" /\ access_token = "new" =>
                /\ Len(task'[t].sent) = 1
                /\ Credentials(task'[t].sent[1])
                      = {Header(CredentialName, CredentialValue("new"))}
          /\ FirstResult(t) =>
                (RefreshRequest \in {task'[t].sent[i] : i \in 1..Len(task'[t].sent)}
                    <=> LastGot(t) = Unauthorized)]_vars

C22_Witness ==
    \E t \in OAuth2Tasks, u \in OAuth2Tasks :
        /\ t # u
        /\ task[t].pc = "done" /\ Len(task[t].sent) = 3
        /\ Credentials(task[t].sent[1]) = {Header(CredentialName, CredentialValue("old"))}
        /\ task[t].ret = Ok(InMemoryResponse(200, {}, Body_Text("ok")))
        /\ task[t].cb = <<RefreshData("new", "new")>>
        /\ task[u].pc = "done" /\ Len(task[u].sent) = 1
        /\ Credentials(task[u].sent[1]) = {Header(CredentialName, CredentialValue("new"))}
        /\ access_token = "new"

(* C23: a refresh that fails, with a 4xx/5xx response or a transport       *)
(* error, is what handle returns; the original request is not dispatched   *)
(* again, the stored token is unchanged and the callback is not invoked.   *)
C23_RefreshFails ==
    [][\A t \in Tasks :
          RefreshResult(t) /\ RefreshFailed(LastGot(t)) =>
              /\ task'[t].pc = "done"
              /\ task'[t].ret = LastGot(t)
              /\ task'[t].sent = task[t].sent
              /\ Len(task'[t].sent) = 2
              /\ access_token' = access_token
              /\ task'[t].cb = <<>>]_vars

C23_Witness ==
    \E t \in OAuth2Tasks, u \in OAuth2Tasks :
        /\ task[t].pc = "done" /\ Len(task[t].sent) = 2
        /\ task[t].ret = Ok(InMemoryResponse(500, {}, Body_Empty))
        /\ task[u].pc = "done" /\ Len(task[u].sent) = 2
        /\ task[u].ret = Err("ConnectionError")
        /\ access_token = "old"

Refreshes(t) == {i \in 1..Len(task[t].sent) : task[t].sent[i] = RefreshRequest}

(* C24: handle ends, after at most three dispatches of which at most one   *)
(* is a refresh; a 401 answer to the re-run is returned as it is.          *)
C24_AtMostThreeDispatches ==
    /\ [](\A t \in OAuth2Tasks :
             /\ Len(task[t].sent) <= 3
             /\ Cardinality(Refreshes(t)) <= 1
             /\ Len(task[t].got) = 3 => task[t].pc = "done" /\ task[t].ret = task[t].got[3])
    /\ \A t \in Tasks : (task[t].pc # "idle") ~> (task[t].pc = "done")

C24_Witness ==
    \E t \in OAuth2Tasks :
        /\ task[t].pc = "done"
        /\ Len(task[t].sent) = 3
        /\ task[t].got[3] = Unauthorized
        /\ task[t].ret = Unauthorized

(* C25: a first result that is not a 401 response, whatever its status or  *)
(* error, is returned after that one dispatch: no refresh request, no      *)
(* change of the stored token, no callback.                                *)
C25_NotUnauthorized ==
    [][\A t \in Tasks :
          FirstResult(t) /\ LastGot(t) # Unauthorized =>
              /\ task'[t].pc = "done"
              /\ task'[t].ret = LastGot(t)
              /\ Len(task'[t].sent) = 1
              /\ access_token' = access_token
              /\ task'[t].cb = <<>>]_vars

C25_Witness ==
    \E t \in OAuth2Tasks, u \in OAuth2Tasks :
        /\ task[t].pc = "done" /\ Len(task[t].sent) = 1
        /\ task[t].ret = Ok(InMemoryResponse(403, {}, Body_Empty))
        /\ task[u].pc = "done" /\ Len(task[u].sent) = 1
        /\ task[u].ret \in {Ok(InMemoryResponse(400, {}, Body_Empty)), Err("ConnectionError")}

(* C26: of the requests answered 401 at the same time, only one has a      *)
(* refresh request in flight.                                              *)
C26_SingleFlight ==
    Cardinality({t \in OAuth2Tasks : task[t].pc = "refresh"}) <= 1

----------------------------------------------------------------------------
(* Properties of the awaited builder *)

AwaitTasks == {t \in Tasks : task[t].kind = "Await" /\ task[t].pc = "done"}

(* What send() returned to task t *)
SendResult(t) == task[t].got[1]

(* C27, as amended: the awaited builder maps a ProtocolError of the        *)
(* pipeline to Err(Protocol); for a response it returns Err(Protocol)      *)
(* when reading the body fails, whatever the status, and otherwise         *)
(* Err(HttpError(r)) exactly when the status is within 400..599 and Ok(r)  *)
(* for every other status, 600 and more included, r being the response     *)
(* with its body in memory (Text when the bytes are UTF-8); send() itself  *)
(* returns the 4xx/5xx response as Ok.                                     *)
C27_AwaitedBuilder ==
    \A t \in AwaitTasks :
        LET sent == SendResult(t)
            out == task[t].ret
        IN  /\ sent.kind = "err" => out = Protocol(sent.err)
            /\ sent.kind = "ok" =>
                  \/ out = Protocol("ConnectionError")
                  \/ /\ out.kind = IF 400 <= sent.res.status /\ sent.res.status <= 599
                                   THEN "http_error" ELSE "ok"
                     /\ out.res.status = sent.res.status
                     /\ out.res.headers = sent.res.headers
                     /\ out.res.body \in {Body_Text("hi"), Body_Bytes(<<255>>)}
                     /\ out.res.body.variant = "Text" <=> sent.res.body.bytes = Utf8("hi")

(* C27: the awaited builder returns Err(HttpError(r)) exactly when the     *)
(* pipeline returned a response with a 4xx or 5xx status, Ok(r) for every  *)
(* other response, and Err(Protocol) for a ProtocolError of the pipeline.  *)
C27_HttpErrorExactlyOn4xx5xx ==
    \A t \in AwaitTasks :
        LET sent == SendResult(t)
            out == task[t].ret
        IN  /\ sent.kind = "err" => out.kind = "protocol"
            /\ sent.kind = "ok" =>
                  out.kind = IF 400 <= sent.res.status /\ sent.res.status <= 599
                             THEN "http_error" ELSE "ok"

C27_Witness ==
    \E t \in AwaitTasks, u \in AwaitTasks :
        /\ SendResult(t) = Ok(StreamResponse(499, <<104, 105>>))
        /\ task[t].ret = HttpError(InMemoryResponse(499, {}, Body_Text("hi")))
        /\ SendResult(u) = Ok(StreamResponse(600, <<255>>))
        /\ task[u].ret = Ok(InMemoryResponse(600, {}, Body_Bytes(<<255>>)))

----------------------------------------------------------------------------
(* Properties of TotalTimeout *)

TimeoutTasks == {t \in Tasks : task[t].kind = "TotalTimeout"}

(* C28: TotalTimeout calls next.run once; it returns the TimedOut error    *)
(* when next.run has not completed by the deadline, and the result of      *)
(* next.run, unchanged, when it has.                                       *)
C28_TotalTimeout ==
    \A t \in TimeoutTasks :
        /\ task[t].calls = 1
        /\ task[t].elapsed <= task[t].timeout
        /\ task[t].pc = "done" =>
              \/ /\ task[t].got = <<>>
                 /\ task[t].elapsed = task[t].timeout
                 /\ task[t].ret = Err("TimedOut")
              \/ /\ Len(task[t].got) = 1
                 /\ task[t].ret = task[t].got[1]

C28_Witness ==
    \E t \in TimeoutTasks, u \in TimeoutTasks :
        /\ task[t].pc = "done" /\ task[t].timeout = 2 /\ task[t].got = <<>>
        /\ task[t].ret = Err("TimedOut")
        /\ task[u].pc = "done" /\ task[u].timeout = 2 /\ task[u].elapsed = 1
        /\ task[u].ret = Err("ConnectionError")

----------------------------------------------------------------------------
(* Properties of the transport terminator *)

TerminatorTasks == {t \in Tasks : task[t].kind = "Terminator"}

ContentLengths(req) == {h \in req.headers : h.name = NameContentLength}

(* The byte length of the bodies the model uses, as a header value *)
ByteLength(body) ==
    CASE body = Body_Empty -> "0"
      [] body = Body_Text("hi") -> "2"
      [] body = Body_Text("h&eacute;") -> "3"
      [] body = Body_Bytes(<<255>>) -> "1"
      [] body = Body_Json(JString("hi")) -> "4"
      [] OTHER -> "8"

(* C29: every request that reaches the terminator goes on the wire with    *)
(* a Content-Length of the body's byte length when it had none, with the   *)
(* Content-Length it had otherwise, and with every other header as it was. *)
C29_ContentLength ==
    \A t \in TerminatorTasks :
        /\ Len(task[t].sent) = 1
        /\ LET req == task[t].req
               wire == task[t].sent[1]
           IN  /\ wire.headers \ ContentLengths(wire) = req.headers \ ContentLengths(req)
               /\ ContentLengths(wire) =
                     IF ContentLengths(req) = {}
                     THEN {Header(NameContentLength, ByteLength(req.body))}
                     ELSE ContentLengths(req)

----------------------------------------------------------------------------
(* Properties of the sanitizer *)

SanitizeTasks == {t \in Tasks : task[t].kind = "Sanitize"}

SensitiveWords == {"secret", "key", "pkey", "session", "password", "token"}

(* (^|[-_])(secret|key|pkey|session|password|token)($|[-_]) on a folded name *)
MatchesPattern(k) ==
    \E i \in 1..Len(k) :
        /\ k[i] \in SensitiveWords
        /\ i = 1 \/ k[i - 1] \in {"-", "_"}
        /\ i = Len(k) \/ k[i + 1] \in {"-", "_"}

Sensitive(name) ==
    LET k == as_lowercase(name)
    IN  \/ k \in {<<"authorization">>, <<"cookie">>, <<"set", "-", "cookie">>,
                  <<"password">>}
        \/ MatchesPattern(k)

(* C30: a header is sanitized exactly when its folded name is one of the   *)
(* four fixed names or matches the pattern with the six words; the value   *)
(* of a sanitized header is ten asterisks and any other value is kept.     *)
C30_SanitizedNames ==
    \A t \in SanitizeTasks :
        /\ \A h \in task[t].req.headers : should_sanitize(h.name) <=> Sensitive(h.name)
        /\ task[t].sent[1].headers =
              { Header(h.name, IF Sensitive(h.name) THEN "**********" ELSE h.value)
                  : h \in task[t].req.headers }

----------------------------------------------------------------------------
(* Properties of multipart forms *)

MultipartTasks == {t \in Tasks : task[t].kind = "Multipart"}

(* The bytes of a parsed part body: the text of the response it holds *)
ParsedParts(form) ==
    [i \in 1..Len(form.parts) |->
        Part(form.parts[i].headers, form.parts[i].body.body)]

(* C31: a form is written as, for each part in order, the boundary line,   *)
(* the header lines, a blank line, the body and a line break, then the     *)
(* closing boundary line; and Form::from_response on a response with those *)
(* bytes and the form's content type gives the same parts back.            *)
C31_MultipartRoundTrip ==
    \A t \in MultipartTasks :
        LET form == task[t].cb[1]
            parsed == task[t].got[1]
        IN  /\ task[t].sent[1] =
                  Form_write_parts_always(form, 1) \o write_terminate(form.boundary)
            /\ parsed.some
            /\ parsed.form.boundary = form.boundary
            /\ ParsedParts(parsed.form) = form.parts

----------------------------------------------------------------------------
(* Properties of Retry above the transport *)

RetryTasks == {t \in Tasks : task[t].kind = "Retry"}

(* The Retry-After of a response as a delay in units of 100 ms: decimal    *)
(* seconds, or the distance to an instant that lies in the future          *)
UsableHint(res) ==
    \/ res.retry_after.kind = "secs"
    \/ res.retry_after.kind = "date" /\ res.retry_after.val > 0

HintDelay(res) ==
    IF res.retry_after.kind = "secs" THEN 10 * res.retry_after.val
    ELSE res.retry_after.val

(* The delay before the k-th sleep (k = 0: before the first response) *)
DelayBefore(tk, k) == IF k = 0 THEN 1 ELSE tk.slept[k]

C35_SleepsBeforeGivingUp ==
    \A t \in RetryTasks :
        /\ task[t].ret = Err("TooManyRetries") =>
              /\ task[t].pc = "done"
              /\ task[t].calls = task[t].cfg.max_retries
              /\ Len(task[t].slept) = task[t].cfg.max_retries
              /\ Len(task[t].got) = task[t].calls
        /\ task[t].pc = "sleep" => Len(task[t].slept) = task[t].calls - 1
        /\ task[t].pc = "loop" => Len(task[t].slept) = task[t].calls

C35_Witness ==
    \E t \in RetryTasks :
        /\ task[t].ret = Err("TooManyRetries")
        /\ task[t].cfg.max_retries = 3
        /\ task[t].calls = 3
        /\ Len(task[t].slept) = 3

----------------------------------------------------------------------------
(* Properties of the recorder across clear and restarts *)

RecorderTasks == {t \in Tasks : task[t].kind = "Recorder"}

(* The map is what RequestRecorder::new loads from the directory *)
Loaded == \E o \in LoadOrders(files) : requests = CollectRecordings(files, o, <<>>)

(* The request of task t was recorded and its file still holds the pair *)
RecordingKept(t) ==
    /\ task[t].pc = "done"
    /\ task[t].ret = Ok(task[t].res)
    /\ RecordingPath(task[t]) \in DOMAIN files
    /\ files[RecordingPath(task[t])] =
          RequestResponsePair(sanitize_request(task[t].req),
                              sanitize_response(task[t].res))

(* C33: once the map has been loaded from the directory, every request     *)
(* whose recording is in the directory is a lookup hit, whatever the       *)
(* variant of its body, and the hit is the recorded response.              *)
C33_ReloadedRecordingHits ==
    Loaded =>
        \A t \in RecorderTasks :
            RecordingKept(t) =>
                /\ IndexMap_get(requests, task[t].req).found
                /\ serialize_response(IndexMap_get(requests, task[t].req).value)
                      = files[RecordingPath(task[t])].response

(* The fingerprint of the request of a recording: method, URL and body *)
RecordingFingerprint(rr) ==
    <<rr.request.method, rr.request.url, rr.request.has_body, rr.request.body>>

(* C34: across record_response calls, clear calls and restarts, a          *)
(* recording file stays in the directory and is only ever replaced by a    *)
(* recording whose request has the same fingerprint.                       *)
C34_NoForeignOverwrite ==
    [][\A p \in DOMAIN files :
          /\ p \in DOMAIN files'
          /\ RecordingFingerprint(files'[p]) = RecordingFingerprint(files[p])]_vars

(* The recorder has no call in flight and every call returned the live     *)
(* response                                                                *)
AllRecorded ==
    /\ RecorderTasks # {}
    /\ \A t \in RecorderTasks : task[t].pc = "done" /\ task[t].ret = Ok(task[t].res)

(* C36: when concurrent record_response calls have all finished, the file  *)
(* of each recorded fingerprint holds the response that the map holds for  *)
(* it.                                                                     *)
C36_FileMatchesMap ==
    AllRecorded =>
        \A t \in RecorderTasks :
            LET key == sanitize_request(task[t].req)
            IN  /\ RecordingPath(task[t]) \in DOMAIN files
                /\ IndexMap_get(requests, key).found
                /\ files[RecordingPath(task[t])].response
                      = serialize_response(IndexMap_get(requests, key).value)

(* C39: when the file write of record_response fails, the Recorder returns *)
(* the IoError, the directory is unchanged, and the pair inserted before   *)
(* the write stays in the map, where a lookup of the request finds it.     *)
C39_FailedWriteKeepsEntry ==
    [][\A t \in Tasks :
          (/\ task[t].kind = "Recorder"
           /\ task[t].pc = "fs_write"
           /\ task'[t].pc = "done"
           /\ task'[t].ret = Err("IoError"))
          => /\ requests' = requests
             /\ files' = files
             /\ IndexMap_get(requests', sanitize_request(task[t].req)).found
             /\ IndexMap_get(requests', task[t].req).found]_vars

----------------------------------------------------------------------------
(* Properties of Retry and OAuth2 above a Recorder *)

(* C37: with Retry before a Recorder in RecordOrRequest mode, every        *)
(* attempt of Retry is dispatched to the transport: none of them is        *)
(* answered with the response recorded on an earlier attempt.              *)
C37_RetriesReachTransport ==
    \A t \in RetryTasks :
        /\ Len(task[t].sent) = Len(task[t].got)
        /\ \A k \in 1..Len(task[t].hits) : ~task[t].hits[k]

(* C38: with a Recorder in RecordOrRequest mode after OAuth2, the refresh  *)
(* request and the re-run go through the Recorder and on to the transport: *)
(* the re-run with the new token is not answered with the 401 recorded for *)
(* the first attempt.                                                      *)
C38_RerunReachesTransport ==
    \A t \in OAuth2Tasks :
        /\ Len(task[t].hits) = Len(task[t].got)
        /\ \A k \in 1..Len(task[t].hits) : ~task[t].hits[k]

----------------------------------------------------------------------------
(* Properties of the refresh token of OAuth2 *)

(* The refresh token the instance is constructed with *)
ConstructedRefreshToken == "r0"

(* The refresh requests task t has dispatched so far *)
RefreshRequestsOf(t) ==
    {i \in 1..Len(task[t].sent) :
        /\ task[t].sent[i].method = "POST"
        /\ task[t].sent[i].uri = make_refresh_request(ConstructedRefreshToken).uri}

(* Task t got a refresh answer with a new refresh_token, and its callback  *)
(* was given that token                                                    *)
RotatedFor(t) ==
    /\ Len(task[t].cb) = 1
    /\ task[t].cb[1].refresh_token = <<"r1">>

(* C40: OAuth2::handle never changes the stored refresh token. Every       *)
(* refresh request of the instance carries the refresh token the instance  *)
(* was constructed with, also after a refresh answer that contained a new  *)
(* refresh_token; the new one is only passed to the callback.              *)
C40_RefreshTokenKept ==
    /\ refresh_token = ConstructedRefreshToken
    /\ \A t \in Tasks :
          /\ \A i \in RefreshRequestsOf(t) :
                task[t].sent[i] = make_refresh_request(ConstructedRefreshToken)
          /\ \A k \in 1..Len(task[t].cb) :
                task[t].cb[k].refresh_token =
                    RefreshResponse_refresh_token(task[t].got[2].res.body)

(* A request that was authorized with the token of a rotated refresh, got  *)
(* a 401 and has its own refresh request in flight                         *)
C40_Witness ==
    \E t, u \in Tasks :
        /\ t # u
        /\ RotatedFor(t)
        /\ task[u].kind = "OAuth2"
        /\ task[u].pc = "refresh"
        /\ task[u].cb = <<>>
        /\ task[u].sent[1] = authorize(task[u].sent[1], "new")
        /\ RefreshRequestsOf(u) = {2}

====
